---- MODULE Spec2Model ----
(***************************************************************************)
(* A model of gptpar (CeleparFlux): the Selenium macro recorder with its   *)
(* poll loop, the stop-recording use case and the repository it saves to,  *)
(* and the play-macro use case with the Selenium player.                   *)
(*                                                                         *)
(* SpecRec is the recorder with a browser that never fails: caller threads *)
(* issue start(url) and stop-recording(name) concurrently, one poll thread *)
(* runs per started session, and the page of each browser captures events. *)
(* SpecRecSeq is the recorder driven by a single caller thread, and       *)
(* SpecRecFaulty is that single caller with a browser whose calls may      *)
(* raise.  SpecPlay is the play-macro use case over a stored repository,   *)
(* replaying on a page with a button, a text field, a checkbox, a radio    *)
(* button and a select.  SpecRepo is the repository with list-macros and   *)
(* delete-macro, called in any order from an empty store.  SpecApp is the  *)
(* use cases over one repository: a thread records under either of two    *)
(* names, and play-macro, delete-macro and list-macros run between the     *)
(* recordings.  SpecGui is the window with its Start and Stop buttons, the *)
(* threads they start and the callbacks these hand back.  SpecCss is the   *)
(* page's cssPath applied to an element of a small page, and SpecFactory   *)
(* is create_firefox_driver under a configuration of its argument and of   *)
(* the environment.                                                        *)
(***************************************************************************)
EXTENDS Integers, Sequences, FiniteSets, TLC

\* ------------------------------------------------------------------ bounds
MaxSessions == 2        \* browser sessions the recorder may open
MaxEvents == 2          \* events the pages may capture
MaxSteps == 2           \* steps of a stored macro that is replayed
MaxStamps == 3          \* instants at which a macro handed to save was recorded
MaxNodes == 3           \* elements of the page whose selectors are generated
MaxPending == 1         \* callbacks that may wait while the window takes a click

\* ------------------------------------------------------------ recorder data
Callers == {"t1", "t2"}
Drivers == 1 .. MaxSessions
NoDriver == 0
Urls == {"http://b"}
Names == {"demo"}
NoArg == "-"
None == "None"

\* What a call into the browser may do: return, raise JavascriptException
\* ("js") or raise another WebDriverException ("wd").
Reliable == {"ok"}
Faulty == {"ok", "js", "wd"}

\* driver.current_url after driver.get(url): the address after any redirect.
CurrentUrl(url) == IF url = "http://b" THEN "https://b/home" ELSE url

\* The event the page pushes as its n-th capture (pushEvent): the listeners
\* record type, selector, value and timestamp; the timestamp orders captures.
RawEvent(n) ==
    IF n % 2 = 1
    THEN [type |-> "click", selector |-> "#submit", value |-> None, timestamp |-> n,
          button |-> "left",
          target |-> [tag |-> "button", inputType |-> "submit", checked |-> None]]
    ELSE [type |-> "input", selector |-> "#name", value |-> "Ana", timestamp |-> n,
          target |-> [tag |-> "input", inputType |-> "text", checked |-> "False"]]

\* _convert_event: type becomes action, selector and value are kept, every
\* other key goes to metadata.
ConvertEvent(event) ==
    [action |-> event.type, selector |-> event.selector, value |-> event.value,
     metadata |-> [key \in (DOMAIN event) \ {"type", "selector", "value"} |-> event[key]]]

RECURSIVE ConvertAll(_)
ConvertAll(raw) ==
    IF raw = <<>> THEN <<>>
    ELSE <<ConvertEvent(Head(raw))>> \o ConvertAll(Tail(raw))

VARIABLES
    \* SeleniumMacroRecorder fields
    lock,            \* _lock: "none" or the caller holding it
    recording,       \* _recording
    driver,          \* _driver: NoDriver (None) or a driver
    events,          \* _events
    polling_thread,  \* _polling_thread: NoDriver (None) or the thread of a session
    start_url,       \* _start_url
    \* the browsers the driver factory made for the recorder
    drvState,        \* "unborn", "open", "capturing" (script installed), "closed", "quit_failed"
    pageBuffer,      \* window._gptparEvents of each browser
    \* the poll thread started for each session
    poll,            \* position of _poll_events
    pollBatch,       \* its local `events`
    \* caller threads
    pc,              \* position of each caller
    arg,             \* the url or macro name the call was given
    final_events,    \* stop's local final_events
    title,           \* stop's metadata["title"]
    result,          \* the RecordingResult stop returned
    \* JsonMacroRepository and the clock
    storage,         \* the list in the JSON file
    clock,           \* datetime.now(timezone.utc), as a tick
    \* bookkeeping for the properties
    captured,        \* the browser in which each captured event happened, in capture order
    stopSession,     \* the driver each stop found at its entry
    stopMark,        \* how many events had been captured when each stop entered
    injectFailed,    \* whether the last start that was let in failed to install the script
    stopLog,         \* the names stop-recording persisted a macro under, oldest first
    \* PlayMacro.execute / SeleniumMacroPlayer.play
    ppc,             \* position of the play-macro call
    playName,        \* the macro name it was given
    playSteps,       \* play's steps
    playUrl,         \* play's start_url
    playDriver,      \* the browser play opened: "none", "open", "closed", "quit_failed"
    stepIdx,         \* the step the for loop is at
    playError,       \* the error play raises, NoError if none
    timedOut,        \* bookkeeping: the step whose wait ran out, 0 if none
    dom,             \* the fields of the page play's browser shows
    log,             \* bookkeeping: the calls play made on elements, in order
    charIdx,         \* the character the typing loop of _apply_input is at
    fieldBefore,     \* bookkeeping: what the text field held when _apply_input began
    \* callers of JsonMacroRepository and ListMacros
    lastOp,          \* the last repository operation, the name it was given, and
                     \* how many macros were stored when it began
    got,             \* what it returned, if it was a get
    listed,          \* what it returned, if it was a list-macros
    saved,           \* bookkeeping: the macro last handed to save under each name
    \* the page's cssPath
    cssDom,          \* the elements of the page: nodeName, id and parentElement of each
    cssTarget,       \* the element an event happened on, 0 if none
    cssSelector,     \* what cssPath returned for it, <<>> before the call
    \* create_firefox_driver
    fxConfig,        \* the firefox_binary argument and the two environment variables
    fxPc,            \* position of the create_firefox_driver call
    binary_location, \* options.binary_location
    fxError,         \* the source and path the RuntimeError of the lookup names
    fxBrowser,       \* the browser: "none", "launched", "maximized"
    \* MacroApp (the window)
    is_recording,    \* MacroApp._is_recording
    uiQueue,         \* the callbacks handed to self.after(0, ...), oldest first
    task             \* the background thread of each slot: "none", "start", "stop", "done"

recVars == <<lock, recording, driver, events, polling_thread, start_url, drvState,
             pageBuffer, poll, pollBatch, pc, arg, final_events, title, result,
             storage, clock, captured, stopSession, stopMark, injectFailed,
             stopLog>>

pageVars == <<dom, log, charIdx, fieldBefore>>

playVars == <<ppc, playName, playSteps, playUrl, playDriver, stepIdx, playError, timedOut,
              pageVars>>

repoVars == <<lastOp, got, listed, saved>>

cssVars == <<cssDom, cssTarget, cssSelector>>

factoryVars == <<fxConfig, fxPc, binary_location, fxError, fxBrowser>>

guiVars == <<is_recording, uiQueue, task>>

toolVars == <<cssVars, factoryVars, guiVars>>

vars == <<recVars, playVars, repoVars, toolVars>>

\* ----------------------------------------------------------------- helpers
\* positions at which a call has ended, by returning or by raising
Ended == {"start_ok", "stop_ok", "err_already", "err_notactive", "err_factory",
          "err_driver", "err_inject", "err_nodriver"}
StartPcs == {"start_open", "start_get", "start_inject"}
StopPcs == {"stop_fetch", "stop_extend", "stop_title", "stop_quit", "stop_copy", "stop_save"}

Opened == {d \in Drivers : drvState[d] # "unborn"}
Live(d) == drvState[d] \in {"open", "capturing"}

NoResult == [start_url |-> "", steps |-> <<>>, title |-> None]

RecInit ==
    /\ lock = "none"
    /\ recording = FALSE
    /\ driver = NoDriver
    /\ events = <<>>
    /\ polling_thread = NoDriver
    /\ start_url = ""
    /\ drvState = [d \in Drivers |-> "unborn"]
    /\ pageBuffer = [d \in Drivers |-> <<>>]
    /\ poll = [d \in Drivers |-> "none"]
    /\ pollBatch = [d \in Drivers |-> <<>>]
    /\ pc = [t \in Callers |-> "idle"]
    /\ arg = [t \in Callers |-> NoArg]
    /\ final_events = [t \in Callers |-> <<>>]
    /\ title = [t \in Callers |-> None]
    /\ result = [t \in Callers |-> NoResult]
    /\ clock = 1
    /\ captured = <<>>
    /\ stopSession = [t \in Callers |-> NoDriver]
    /\ stopMark = [t \in Callers |-> 0]
    /\ injectFailed = FALSE
    /\ stopLog = <<>>

\* groups of variables, for the frame conditions
recFields == <<recording, driver, events, polling_thread, start_url>>
browser == <<drvState, pageBuffer>>
pollVars == <<poll, pollBatch>>
stopLocals == <<final_events, title, result>>
repo == <<storage, clock>>
hist == <<captured, stopSession, stopMark, injectFailed, stopLog>>

\* ------------------------------------------------- JsonMacroRepository.save
\* next((i for i, item in enumerate(data) if item["name"] == macro.name), None)
ExistingIndex(data, name) ==
    IF \E i \in 1 .. Len(data) : data[i].name = name
    THEN CHOOSE i \in 1 .. Len(data) :
            /\ data[i].name = name
            /\ \A j \in 1 .. (i - 1) : data[j].name # name
    ELSE 0

\* ---------------------------------------- MacroStep / Macro to_dict, from_dict
\* dict.get(key, default)
DictGet(dict, key, default) == IF key \in DOMAIN dict THEN dict[key] ELSE default

\* datetime.isoformat() of an instant in UTC, and datetime.fromisoformat:
\* the instant n is written as the text "2024-01-01T00:00:0n+00:00".
IsoFormat(instant) == <<"2024-01-01T00:00:0", instant, "+00:00">>
FromIsoFormat(text) == text[2]

StepToDict(step) ==
    [action |-> step.action, selector |-> step.selector, value |-> step.value,
     metadata |-> step.metadata]

\* a from_dict that forgets the value of the step
StepFromDictWithoutValue(dict) ==
    [action |-> DictGet(dict, "action", None),
     selector |-> DictGet(dict, "selector", None),
     value |-> None,
     metadata |-> DictGet(dict, "metadata", <<>>)]

StepFromDict(dict) ==
    [action |-> DictGet(dict, "action", None),
     selector |-> DictGet(dict, "selector", None),
     value |-> DictGet(dict, "value", None),
     metadata |-> DictGet(dict, "metadata", <<>>)]

MacroToDict(macro) ==
    [name |-> macro.name, start_url |-> macro.start_url,
     recorded_at |-> IsoFormat(macro.recorded_at),
     steps |-> [i \in 1 .. Len(macro.steps) |-> StepToDict(macro.steps[i])],
     metadata |-> macro.metadata]

MacroFromDict(dict) ==
    [name |-> dict.name, start_url |-> dict.start_url,
     recorded_at |-> FromIsoFormat(dict.recorded_at),
     steps |-> [i \in 1 .. Len(DictGet(dict, "steps", <<>>)) |->
                   StepFromDict(DictGet(dict, "steps", <<>>)[i])],
     metadata |-> DictGet(dict, "metadata", <<>>)]

\* a save that tests the index for truth: the first entry is never replaced
SaveUnlessFirst(data, macro) ==
    IF ExistingIndex(data, macro.name) > 1
    THEN [data EXCEPT ![ExistingIndex(data, macro.name)] = MacroToDict(macro)]
    ELSE Append(data, MacroToDict(macro))

\* a save that never looks for the name
SaveAlwaysAppends(data, macro) == Append(data, MacroToDict(macro))

\* a save that writes the new macro as the only entry
SaveAlone(data, macro) == <<MacroToDict(macro)>>

Save(data, macro) ==
    IF ExistingIndex(data, macro.name) # 0
    THEN [data EXCEPT ![ExistingIndex(data, macro.name)] = MacroToDict(macro)]
    ELSE Append(data, MacroToDict(macro))

\* ------------------------------------------- SeleniumMacroRecorder.start
\* a start that does not look at the recording flag
StartEnterWithoutCheck(t, url) ==
    /\ pc[t] = "idle"
    /\ lock = "none"
    /\ Cardinality(Opened) < MaxSessions
    /\ pc' = [pc EXCEPT ![t] = "start_open"]
    /\ arg' = [arg EXCEPT ![t] = url]
    /\ lock' = t
    /\ injectFailed' = FALSE
    /\ UNCHANGED <<playVars, repoVars, toolVars>>
    /\ UNCHANGED <<recFields, browser, pollVars, stopLocals, repo, captured, stopSession,
                   stopMark, stopLog>>

\* start(url) takes the lock:
\* with self._lock: if self._recording: raise RuntimeError("... already running.")
StartEnter(t, url) ==
    /\ pc[t] = "idle"
    /\ lock = "none"
    /\ recording \/ Cardinality(Opened) < MaxSessions
    /\ IF recording
       THEN /\ pc' = [pc EXCEPT ![t] = "err_already"]
            /\ UNCHANGED <<arg, lock, injectFailed>>
       ELSE /\ pc' = [pc EXCEPT ![t] = "start_open"]
            /\ arg' = [arg EXCEPT ![t] = url]
            /\ lock' = t
            /\ injectFailed' = FALSE
    /\ UNCHANGED <<playVars, repoVars, toolVars>>
    /\ UNCHANGED <<recFields, browser, pollVars, stopLocals, repo, captured, stopSession,
                   stopMark, stopLog>>

\* self._driver = self._driver_factory()
StartOpen(t, o) ==
    /\ pc[t] = "start_open"
    /\ IF o = "ok"
       THEN /\ driver' = Cardinality(Opened) + 1
            /\ drvState' = [drvState EXCEPT ![Cardinality(Opened) + 1] = "open"]
            /\ pc' = [pc EXCEPT ![t] = "start_get"]
            /\ UNCHANGED <<arg, lock>>
       ELSE \* the factory raises: start ends, the lock is released
            /\ pc' = [pc EXCEPT ![t] = "err_factory"]
            /\ arg' = [arg EXCEPT ![t] = NoArg]
            /\ lock' = "none"
            /\ UNCHANGED <<driver, drvState>>
    /\ UNCHANGED <<playVars, repoVars, toolVars>>
    /\ UNCHANGED <<recording, events, polling_thread, start_url, pageBuffer, pollVars,
                   stopLocals, repo, hist>>

\* self._driver.get(url); self._start_url = self._driver.current_url
StartGet(t, o) ==
    /\ pc[t] = "start_get"
    /\ IF driver = NoDriver
       THEN \* self._driver was cleared meanwhile: the attribute access fails
            /\ pc' = [pc EXCEPT ![t] = "err_nodriver"]
            /\ arg' = [arg EXCEPT ![t] = NoArg]
            /\ lock' = "none"
            /\ UNCHANGED start_url
       ELSE IF o = "ok"
       THEN /\ start_url' = CurrentUrl(arg[t])
            /\ pc' = [pc EXCEPT ![t] = "start_inject"]
            /\ UNCHANGED <<arg, lock>>
       ELSE /\ pc' = [pc EXCEPT ![t] = "err_driver"]
            /\ arg' = [arg EXCEPT ![t] = NoArg]
            /\ lock' = "none"
            /\ UNCHANGED start_url
    /\ UNCHANGED <<playVars, repoVars, toolVars>>
    /\ UNCHANGED <<recording, driver, events, polling_thread, browser, pollVars,
                   stopLocals, repo, hist>>

\* self._events = []; self._inject_recorder(); self._recording = True;
\* self._polling_thread = Thread(target=self._poll_events); .start()
\* StartInject with the flag raised before the script is installed, so that a
\* failed installation leaves the recorder marked as recording.
StartInjectFlagFirst(t, o) ==
    /\ pc[t] = "start_inject"
    /\ events' = <<>>
    /\ arg' = [arg EXCEPT ![t] = NoArg]
    /\ lock' = "none"
    /\ IF driver = NoDriver
       THEN \* raise RuntimeError("Driver not initialised")
            /\ pc' = [pc EXCEPT ![t] = "err_nodriver"]
            /\ injectFailed' = TRUE
            /\ UNCHANGED <<recording, polling_thread, drvState, poll>>
       ELSE IF o = "ok"
       THEN /\ drvState' = [drvState EXCEPT ![driver] = "capturing"]
            /\ recording' = TRUE
            /\ polling_thread' = driver
            /\ poll' = [poll EXCEPT ![driver] = "check"]
            /\ pc' = [pc EXCEPT ![t] = "start_ok"]
            /\ UNCHANGED injectFailed
       ELSE \* execute_script raises: logged and re-raised
            /\ pc' = [pc EXCEPT ![t] = "err_inject"]
            /\ injectFailed' = TRUE
            /\ recording' = TRUE
            /\ UNCHANGED <<polling_thread, drvState, poll>>
    /\ UNCHANGED <<playVars, repoVars, toolVars>>
    /\ UNCHANGED <<driver, start_url, pageBuffer, pollBatch, stopLocals, repo, captured,
                   stopSession, stopMark, stopLog>>

StartInject(t, o) ==
    /\ pc[t] = "start_inject"
    /\ events' = <<>>
    /\ arg' = [arg EXCEPT ![t] = NoArg]
    /\ lock' = "none"
    /\ IF driver = NoDriver
       THEN \* raise RuntimeError("Driver not initialised")
            /\ pc' = [pc EXCEPT ![t] = "err_nodriver"]
            /\ injectFailed' = TRUE
            /\ UNCHANGED <<recording, polling_thread, drvState, poll>>
       ELSE IF o = "ok"
       THEN /\ drvState' = [drvState EXCEPT ![driver] = "capturing"]
            /\ recording' = TRUE
            /\ polling_thread' = driver
            /\ poll' = [poll EXCEPT ![driver] = "check"]
            /\ pc' = [pc EXCEPT ![t] = "start_ok"]
            /\ UNCHANGED injectFailed
       ELSE \* execute_script raises: logged and re-raised
            /\ pc' = [pc EXCEPT ![t] = "err_inject"]
            /\ injectFailed' = TRUE
            /\ UNCHANGED <<recording, polling_thread, drvState, poll>>
    /\ UNCHANGED <<playVars, repoVars, toolVars>>
    /\ UNCHANGED <<driver, start_url, pageBuffer, pollBatch, stopLocals, repo, captured,
                   stopSession, stopMark, stopLog>>

\* ------------------------------------------------------ the page's listeners
\* A click, input or change event reaches the document: pushEvent.
PageCapture(d) ==
    /\ drvState[d] = "capturing"
    /\ Len(captured) < MaxEvents
    /\ pageBuffer' = [pageBuffer EXCEPT ![d] = Append(@, RawEvent(Len(captured) + 1))]
    /\ captured' = Append(captured, d)
    /\ UNCHANGED <<playVars, repoVars, toolVars>>
    /\ UNCHANGED <<lock, recFields, drvState, pollVars, pc, arg, stopLocals, repo,
                   stopSession, stopMark, injectFailed, stopLog>>

\* ------------------------------------------------------------ _poll_events
\* with self._lock: if not self._recording or self._driver is None: break
PollCheck(p) ==
    /\ poll[p] = "check"
    /\ lock = "none"
    /\ poll' = [poll EXCEPT ![p] =
                  IF ~recording \/ driver = NoDriver THEN "done" ELSE "fetch"]
    /\ UNCHANGED <<playVars, repoVars, toolVars>>
    /\ UNCHANGED <<lock, recFields, browser, pollBatch, pc, arg, stopLocals, repo, hist>>

\* events = self._fetch_events(): the script copies and clears the page's buffer
PollFetch(p, o) ==
    /\ poll[p] = "fetch"
    /\ IF driver = NoDriver
       THEN /\ poll' = [poll EXCEPT ![p] = "check"]
            /\ UNCHANGED <<pollBatch, pageBuffer>>
       ELSE IF ~Live(driver) \/ o = "wd"
       THEN \* a WebDriverException other than JavascriptException is not
            \* caught: the thread ends
            /\ poll' = [poll EXCEPT ![p] = "done"]
            /\ UNCHANGED <<pollBatch, pageBuffer>>
       ELSE IF o = "js"
       THEN \* JavascriptException: logged, treated as no events
            /\ poll' = [poll EXCEPT ![p] = "check"]
            /\ UNCHANGED <<pollBatch, pageBuffer>>
       ELSE /\ pollBatch' = [pollBatch EXCEPT ![p] = ConvertAll(pageBuffer[driver])]
            /\ pageBuffer' = [pageBuffer EXCEPT ![driver] = <<>>]
            /\ poll' = [poll EXCEPT ![p] =
                          IF pageBuffer[driver] # <<>> THEN "extend" ELSE "check"]
    /\ UNCHANGED <<playVars, repoVars, toolVars>>
    /\ UNCHANGED <<lock, recFields, drvState, pc, arg, stopLocals, repo, hist>>

\* with self._lock: self._events.extend(events); then time.sleep(...)
PollExtend(p) ==
    /\ poll[p] = "extend"
    /\ lock = "none"
    /\ events' = events \o pollBatch[p]
    /\ pollBatch' = [pollBatch EXCEPT ![p] = <<>>]
    /\ poll' = [poll EXCEPT ![p] = "check"]
    /\ UNCHANGED <<playVars, repoVars, toolVars>>
    /\ UNCHANGED <<lock, recording, driver, polling_thread, start_url, browser, pc, arg,
                   stopLocals, repo, hist>>

\* -------------------- StopMacroRecording.execute / SeleniumMacroRecorder.stop
\* a stop that does not look at the recording flag
StopEnterWithoutCheck(t, name) ==
    /\ pc[t] = "idle"
    /\ lock = "none"
    /\ recording' = FALSE
    /\ pc' = [pc EXCEPT ![t] = "stop_fetch"]
    /\ arg' = [arg EXCEPT ![t] = name]
    /\ stopSession' = [stopSession EXCEPT ![t] = driver]
    /\ stopMark' = [stopMark EXCEPT ![t] = Len(captured)]
    /\ UNCHANGED <<playVars, repoVars, toolVars>>
    /\ UNCHANGED <<lock, driver, events, polling_thread, start_url, browser, pollVars,
                   stopLocals, repo, captured, injectFailed, stopLog>>

\* stop-recording(name) calls recorder.stop(), which takes the lock:
\* with self._lock: if not self._recording or self._driver is None: raise
\* RuntimeError("Recorder is not active."); self._recording = False
\* and then waits for the poll thread, for three seconds at most:
\* if self._polling_thread: self._polling_thread.join(timeout=3)
StopEnter(t, name) ==
    /\ pc[t] = "idle"
    /\ lock = "none"
    /\ IF ~recording \/ driver = NoDriver
       THEN /\ pc' = [pc EXCEPT ![t] = "err_notactive"]
            /\ UNCHANGED <<recording, arg, stopSession, stopMark>>
       ELSE /\ recording' = FALSE
            /\ pc' = [pc EXCEPT ![t] = "stop_fetch"]
            /\ arg' = [arg EXCEPT ![t] = name]
            /\ stopSession' = [stopSession EXCEPT ![t] = driver]
            /\ stopMark' = [stopMark EXCEPT ![t] = Len(captured)]
    /\ UNCHANGED <<playVars, repoVars, toolVars>>
    /\ UNCHANGED <<lock, driver, events, polling_thread, start_url, browser, pollVars,
                   stopLocals, repo, captured, injectFailed, stopLog>>

\* final_events = self._fetch_events()
StopFetch(t, o) ==
    /\ pc[t] = "stop_fetch"
    /\ IF driver = NoDriver
       THEN /\ pc' = [pc EXCEPT ![t] = "stop_title"]
            /\ UNCHANGED <<final_events, pageBuffer, arg>>
       ELSE IF ~Live(driver) \/ o = "wd"
       THEN \* a WebDriverException other than JavascriptException leaves stop
            /\ pc' = [pc EXCEPT ![t] = "err_driver"]
            /\ arg' = [arg EXCEPT ![t] = NoArg]
            /\ UNCHANGED <<final_events, pageBuffer>>
       ELSE IF o = "js"
       THEN \* JavascriptException: logged, treated as no events
            /\ pc' = [pc EXCEPT ![t] = "stop_title"]
            /\ UNCHANGED <<final_events, pageBuffer, arg>>
       ELSE /\ final_events' = [final_events EXCEPT ![t] = ConvertAll(pageBuffer[driver])]
            /\ pageBuffer' = [pageBuffer EXCEPT ![driver] = <<>>]
            /\ pc' = [pc EXCEPT ![t] =
                        IF pageBuffer[driver] # <<>> THEN "stop_extend" ELSE "stop_title"]
            /\ UNCHANGED arg
    /\ UNCHANGED <<playVars, repoVars, toolVars>>
    /\ UNCHANGED <<lock, recFields, drvState, pollVars, title, result, repo, hist>>

\* if final_events: with self._lock: self._events.extend(final_events)
StopExtend(t) ==
    /\ pc[t] = "stop_extend"
    /\ lock = "none"
    /\ events' = events \o final_events[t]
    /\ final_events' = [final_events EXCEPT ![t] = <<>>]
    /\ pc' = [pc EXCEPT ![t] = "stop_title"]
    /\ UNCHANGED <<playVars, repoVars, toolVars>>
    /\ UNCHANGED <<lock, recording, driver, polling_thread, start_url, browser, pollVars,
                   arg, title, result, repo, hist>>

\* metadata = {"title": self._safe_execute("return document.title;")}
StopTitle(t, o) ==
    /\ pc[t] = "stop_title"
    /\ IF driver = NoDriver
       THEN /\ title' = [title EXCEPT ![t] = None]
            /\ pc' = [pc EXCEPT ![t] = "stop_quit"]
            /\ UNCHANGED arg
       ELSE IF ~Live(driver) \/ o = "wd"
       THEN \* a WebDriverException other than JavascriptException leaves stop
            /\ pc' = [pc EXCEPT ![t] = "err_driver"]
            /\ arg' = [arg EXCEPT ![t] = NoArg]
            /\ UNCHANGED title
       ELSE /\ title' = [title EXCEPT ![t] = IF o = "js" THEN None ELSE "Title"]
            /\ pc' = [pc EXCEPT ![t] = "stop_quit"]
            /\ UNCHANGED arg
    /\ UNCHANGED <<playVars, repoVars, toolVars>>
    /\ UNCHANGED <<lock, recFields, browser, pollVars, final_events, result, repo, hist>>

\* try: if self._driver: self._driver.quit()
\* except WebDriverException: log; finally: self._driver = None
StopQuit(t, o) ==
    /\ pc[t] = "stop_quit"
    /\ IF driver = NoDriver
       THEN UNCHANGED <<drvState, pageBuffer>>
       ELSE /\ drvState' = [drvState EXCEPT ![driver] =
                              IF o = "ok" THEN "closed" ELSE "quit_failed"]
            /\ pageBuffer' = [pageBuffer EXCEPT ![driver] = <<>>]
    /\ driver' = NoDriver
    /\ pc' = [pc EXCEPT ![t] = "stop_copy"]
    /\ UNCHANGED <<playVars, repoVars, toolVars>>
    /\ UNCHANGED <<lock, recording, events, polling_thread, start_url, pollVars, arg,
                   stopLocals, repo, hist>>

\* with self._lock: recorded_steps = list(self._events)
\* return RecordingResult(start_url=self._start_url, steps=..., metadata=...)
StopCopy(t) ==
    /\ pc[t] = "stop_copy"
    /\ lock = "none"
    /\ result' = [result EXCEPT ![t] =
                    [start_url |-> start_url, steps |-> events, title |-> title[t]]]
    /\ title' = [title EXCEPT ![t] = None]
    /\ pc' = [pc EXCEPT ![t] = "stop_save"]
    /\ UNCHANGED <<playVars, repoVars, toolVars>>
    /\ UNCHANGED <<lock, recFields, browser, pollVars, arg, final_events, repo, hist>>

\* macro = Macro(name=macro_name, start_url=result.start_url,
\*               recorded_at=datetime.now(timezone.utc), steps=result.steps, ...)
\* a macro that carries the same instant whenever it is made
MakeMacroUnstamped(name, res, now) ==
    [name |-> name, start_url |-> res.start_url, recorded_at |-> 0,
     steps |-> res.steps, metadata |-> [title |-> res.title]]

MakeMacro(name, res, now) ==
    [name |-> name, start_url |-> res.start_url, recorded_at |-> now,
     steps |-> res.steps, metadata |-> [title |-> res.title]]

\* self._repository.save(macro); return macro
StopSave(t) ==
    /\ pc[t] = "stop_save"
    /\ storage' = Save(storage, MakeMacro(arg[t], result[t], clock))
    /\ clock' = clock + 1
    /\ pc' = [pc EXCEPT ![t] = "stop_ok"]
    /\ stopLog' = Append(stopLog, arg[t])
    /\ UNCHANGED <<playVars, repoVars, toolVars>>
    /\ UNCHANGED <<lock, recFields, browser, pollVars, arg, stopLocals, captured, stopSession,
                   stopMark, injectFailed>>

\* The call has returned or raised; its thread forgets its locals.
Return(t) ==
    /\ pc[t] \in Ended
    /\ pc' = [pc EXCEPT ![t] = "idle"]
    /\ arg' = [arg EXCEPT ![t] = NoArg]
    /\ final_events' = [final_events EXCEPT ![t] = <<>>]
    /\ title' = [title EXCEPT ![t] = None]
    /\ result' = [result EXCEPT ![t] = NoResult]
    /\ stopSession' = [stopSession EXCEPT ![t] = NoDriver]
    /\ stopMark' = [stopMark EXCEPT ![t] = 0]
    /\ UNCHANGED <<playVars, repoVars, toolVars>>
    /\ UNCHANGED <<lock, recFields, browser, pollVars, repo, captured, injectFailed,
                   stopLog>>

RecSteps(callers, env, names) ==
    \/ \E t \in callers : \E url \in Urls : StartEnter(t, url)
    \/ \E t \in callers : \E o \in env : StartOpen(t, o)
    \/ \E t \in callers : \E o \in env : StartGet(t, o)
    \/ \E t \in callers : \E o \in env : StartInject(t, o)
    \/ \E d \in Drivers : PageCapture(d)
    \/ \E p \in Drivers : PollCheck(p)
    \/ \E p \in Drivers : \E o \in env : PollFetch(p, o)
    \/ \E p \in Drivers : PollExtend(p)
    \/ \E t \in callers : \E name \in names : StopEnter(t, name)
    \/ \E t \in callers : \E o \in env : StopFetch(t, o)
    \/ \E t \in callers : StopExtend(t)
    \/ \E t \in callers : \E o \in env : StopTitle(t, o)
    \/ \E t \in callers : \E o \in env : StopQuit(t, o)
    \/ \E t \in callers : StopCopy(t)
    \/ \E t \in callers : StopSave(t)
    \/ \E t \in callers : Return(t)

RecNext(callers, env) == RecSteps(callers, env, Names)

\* ------------------------------------------------ JsonMacroRepository.get
\* for item in self._read_all(): if item["name"] == name: return ...; return None
\* NoMacro stands for the None that get returns for a name it does not find.
NoMacro == [name |-> None]

Get(data, name) ==
    IF ExistingIndex(data, name) # 0
    THEN MacroFromDict(data[ExistingIndex(data, name)])
    ELSE NoMacro

\* ------------------------------- PlayMacro.execute / SeleniumMacroPlayer.play
NoError == [kind |-> "none", selector |-> None, action |-> None]
PlayEnded == {"play_ok", "err_notfound", "err_factory", "err_navigate",
              "err_timeout", "err_webdriver"}
PlayOutcomes == {"ok", "TimeoutException", "WebDriverException"}

\* What a call on an element may do: return, or raise NoSuchElementException
\* (no option of a select has the value) or another WebDriverException.
ElementOutcomes == {"ok", "NoSuchElementException", "WebDriverException"}

\* The page that is replayed on: a button, a text field, a checkbox, a radio
\* button and a select, each with its value and its checked state.
Selectors == {"#submit", "#name", "#agree", "#plan", "#color"}

ElementKind(selector) ==
    CASE selector = "#name" -> "text"
      [] selector = "#agree" -> "checkbox"
      [] selector = "#plan" -> "radio"
      [] selector = "#color" -> "select"
      [] OTHER -> "button"

NoPage == [s \in Selectors |-> [value |-> <<>>, checked |-> FALSE]]

\* the pages driver.get may load: the text field empty or filled, the
\* checkbox and the radio button checked or not
Pages ==
    {[s \in Selectors |->
         [value |-> IF s = "#name" THEN text ELSE <<>>,
          checked |-> IF s = "#agree" THEN agree ELSE IF s = "#plan" THEN plan ELSE FALSE]] :
       text \in {<<>>, <<"x">>}, agree \in BOOLEAN, plan \in BOOLEAN}

\* element.click() in the browser: a checkbox changes its checked state, a
\* radio button becomes checked, nothing else changes in the page's fields.
ClickElement(page, selector) ==
    IF ElementKind(selector) = "checkbox"
    THEN [page EXCEPT ![selector].checked = ~@]
    ELSE IF ElementKind(selector) = "radio"
    THEN [page EXCEPT ![selector].checked = TRUE]
    ELSE page

\* `for character in step.value`: the characters of a string, in order
Chars(string) ==
    CASE string = "Ana" -> <<"A", "n", "a">>
      [] string = "b" -> <<"b">>
      [] OTHER -> <<>>

\* bool(x) for the values a captured `checked` takes
Bool(x) == x = "True"

\* one call on the driver or on an element, as the bookkeeping records it
Call(idx, call, what, outcome) ==
    [step |-> idx, call |-> call, arg |-> what, outcome |-> outcome]

\* a play-macro that plays whatever get returned
PlayExecuteWithoutCheck(name) ==
    /\ ppc = "idle"
    /\ playName' = name
    /\ ppc' = "play_open"
    /\ playSteps' = IF Get(storage, name) = NoMacro THEN <<>> ELSE Get(storage, name).steps
    /\ playUrl' = IF Get(storage, name) = NoMacro THEN "" ELSE Get(storage, name).start_url
    /\ UNCHANGED <<playDriver, stepIdx, playError, timedOut, pageVars>>
    /\ UNCHANGED <<recVars, repoVars, toolVars>>

\* macro = self._repository.get(macro_name)
\* if macro is None: raise ValueError(f"Macro '{macro_name}' not found")
\* self._player.play(macro.steps, macro.start_url)
PlayExecute(name) ==
    /\ ppc = "idle"
    /\ playName' = name
    /\ IF Get(storage, name) = NoMacro
       THEN /\ ppc' = "err_notfound"
            /\ UNCHANGED <<playSteps, playUrl>>
       ELSE /\ ppc' = "play_open"
            /\ playSteps' = Get(storage, name).steps
            /\ playUrl' = Get(storage, name).start_url
    /\ UNCHANGED <<playDriver, stepIdx, playError, timedOut, pageVars>>
    /\ UNCHANGED <<recVars, repoVars, toolVars>>

\* driver = self._driver_factory()
PlayOpen(o) ==
    /\ ppc = "play_open"
    /\ IF o = "ok"
       THEN /\ playDriver' = "open"
            /\ ppc' = "play_get"
       ELSE /\ ppc' = "err_factory"
            /\ UNCHANGED playDriver
    /\ UNCHANGED <<playName, playSteps, playUrl, stepIdx, playError, timedOut, pageVars>>
    /\ UNCHANGED <<recVars, repoVars, toolVars>>

\* driver.get(start_url); wait = WebDriverWait(driver, self._wait_timeout)
\* Both stand before the try: an exception of driver.get leaves play at once.
PlayGet(o) ==
    /\ ppc = "play_get"
    /\ IF o = "ok"
       THEN /\ ppc' = "play_step"
            /\ stepIdx' = 1
            /\ dom' \in Pages
       ELSE /\ ppc' = "err_navigate"
            /\ UNCHANGED <<stepIdx, dom>>
    /\ UNCHANGED <<playName, playSteps, playUrl, playDriver, playError, timedOut,
                   log, charIdx, fieldBefore>>
    /\ UNCHANGED <<recVars, repoVars, toolVars>>

\* The selenium exception classes: TimeoutException and
\* NoSuchElementException are WebDriverExceptions.
IsInstance(exc, class) ==
    \/ exc = class
    \/ exc \in {"TimeoutException", "NoSuchElementException"} /\ class = "WebDriverException"

\* the except clauses in the other order: WebDriverException catches first
StepErrorWebDriverFirst(exc, step) ==
    IF IsInstance(exc, "WebDriverException")
    THEN [kind |-> "webdriver", selector |-> step.selector, action |-> step.action]
    ELSE IF IsInstance(exc, "TimeoutException")
    THEN [kind |-> "timeout", selector |-> step.selector, action |-> step.action]
    ELSE NoError

\* except TimeoutException ...: raise RuntimeError("Tempo esgotado ao localizar
\* o seletor '{selector}' para a acao '{action}'.")
\* except WebDriverException ...: raise RuntimeError("Falha do WebDriver ao
\* executar a acao '{action}' no seletor '{selector}'.")
StepError(exc, step) ==
    IF IsInstance(exc, "TimeoutException")
    THEN [kind |-> "timeout", selector |-> step.selector, action |-> step.action]
    ELSE IF IsInstance(exc, "WebDriverException")
    THEN [kind |-> "webdriver", selector |-> step.selector, action |-> step.action]
    ELSE NoError

\* a loop that replays every step of a known action, selector or not
ReplayedWithoutSelector(step) ==
    step.action \in {"click", "input", "change"}

\* Whether the loop body does anything with the step's element: the step has
\* a selector and its action is click, input or change.
Replayed(step) ==
    /\ step.selector # None
    /\ step.action \in {"click", "input", "change"}

\* the loop goes on to the next step (after time.sleep(0.1))
NextStep ==
    /\ stepIdx' = stepIdx + 1
    /\ ppc' = "play_step"
    /\ UNCHANGED playError

\* the exception reaches the except clauses of the loop body, and from there
\* the finally clause
Abort(exc) ==
    /\ playError' = StepError(exc, playSteps[stepIdx])
    /\ ppc' = "play_quit"
    /\ UNCHANGED stepIdx

\* One turn of `for step in steps:` up to the wait for the element; after the
\* last step, the finally clause.  A replayed step waits for its element:
\* wait.until raises TimeoutException when the bound runs out, and lets any
\* other exception of the driver through.  _scroll_into_view follows, and
\* swallows what the driver raises.
PlayStep(o) ==
    /\ ppc = "play_step"
    /\ IF stepIdx > Len(playSteps)
       THEN /\ ppc' = "play_quit"
            /\ UNCHANGED <<stepIdx, playError, timedOut, log>>
       ELSE IF ~Replayed(playSteps[stepIdx])
       THEN /\ stepIdx' = stepIdx + 1
            /\ UNCHANGED <<ppc, playError, timedOut, log>>
       ELSE /\ log' = Append(log, Call(stepIdx, "find", playSteps[stepIdx].selector, o))
            /\ IF o = "ok"
               THEN /\ ppc' = IF playSteps[stepIdx].action = "click"
                              THEN "play_click" ELSE "play_input"
                    /\ UNCHANGED <<stepIdx, playError, timedOut>>
               ELSE /\ Abort(o)
                    /\ timedOut' = IF o = "TimeoutException" THEN stepIdx ELSE timedOut
    /\ UNCHANGED <<playName, playSteps, playUrl, playDriver, dom, charIdx, fieldBefore>>
    /\ UNCHANGED <<recVars, repoVars, toolVars>>

\* a click whose failure is logged and passed over
PlayClickPassesOver(o) ==
    /\ ppc = "play_click"
    /\ log' = Append(log, Call(stepIdx, "click", playSteps[stepIdx].selector, o))
    /\ dom' = IF o = "ok" THEN ClickElement(dom, playSteps[stepIdx].selector) ELSE dom
    /\ NextStep
    /\ UNCHANGED <<playName, playSteps, playUrl, playDriver, timedOut, charIdx, fieldBefore>>
    /\ UNCHANGED <<recVars, repoVars, toolVars>>

\* element.click(); time.sleep(0.1)
PlayClick(o) ==
    /\ ppc = "play_click"
    /\ log' = Append(log, Call(stepIdx, "click", playSteps[stepIdx].selector, o))
    /\ IF o = "ok"
       THEN /\ dom' = ClickElement(dom, playSteps[stepIdx].selector)
            /\ NextStep
       ELSE /\ Abort(o)
            /\ UNCHANGED dom
    /\ UNCHANGED <<playName, playSteps, playUrl, playDriver, timedOut, charIdx, fieldBefore>>
    /\ UNCHANGED <<recVars, repoVars, toolVars>>

\* a select branch that absorbs only the exception of a missing option
AbsorbedIfNoSuchElement(exc) == exc = "NoSuchElementException"

\* try: Select(element).select_by_value(step.value)
\* except Exception: every exception is logged and passed over
AbsorbedBySelect(exc) == TRUE

\* a checkbox branch that clicks whatever the element's state
ToggleAlways(target_checked, current_checked) == TRUE

\* if target_checked != current_checked: element.click()
ShouldToggle(target_checked, current_checked) == target_checked # current_checked

\* a clear that leaves the field as it is
ClearKeeps(value) == value

\* element.clear() in the browser: the field is empty afterwards
Clear(value) == <<>>

\* _apply_input up to its first call on the element: the captured target
\* decides between the select, the checkbox/radio and the text branch.
PlayInput(o) ==
    /\ ppc = "play_input"
    /\ LET step == playSteps[stepIdx]
           target_info == DictGet(step.metadata, "target",
                                  [tag |-> None, inputType |-> None, checked |-> None])
           tag == target_info.tag
           input_type == target_info.inputType
       IN IF tag = "select"
          THEN /\ log' = Append(log, Call(stepIdx, "select_by_value", step.value, o))
               /\ dom' = IF o = "ok"
                         THEN [dom EXCEPT ![step.selector].value = Chars(step.value)]
                         ELSE dom
               /\ IF o = "ok" \/ AbsorbedBySelect(o) THEN NextStep ELSE Abort(o)
               /\ UNCHANGED <<charIdx, fieldBefore>>
          ELSE IF input_type \in {"checkbox", "radio"}
          THEN /\ log' = Append(log, Call(stepIdx, "is_selected",
                                          dom[step.selector].checked, o))
               /\ IF o # "ok"
                  THEN Abort(o)
                  ELSE IF ShouldToggle(Bool(target_info.checked), dom[step.selector].checked)
                  THEN /\ ppc' = "play_toggle"
                       /\ UNCHANGED <<stepIdx, playError>>
                  ELSE NextStep
               /\ UNCHANGED <<dom, charIdx, fieldBefore>>
          ELSE \* try: element.clear() except WebDriverException: log, go on
               /\ log' = Append(log, Call(stepIdx, "clear", None, o))
               /\ fieldBefore' = dom[step.selector].value
               /\ dom' = IF o = "ok"
                         THEN [dom EXCEPT ![step.selector].value = Clear(@)]
                         ELSE dom
               /\ IF Chars(step.value) # <<>>
                  THEN /\ ppc' = "play_type"
                       /\ charIdx' = 1
                       /\ UNCHANGED <<stepIdx, playError>>
                  ELSE /\ NextStep
                       /\ UNCHANGED charIdx
    /\ UNCHANGED <<playName, playSteps, playUrl, playDriver, timedOut>>
    /\ UNCHANGED <<recVars, repoVars, toolVars>>

\* element.click() of the checkbox/radio branch
PlayToggle(o) ==
    /\ ppc = "play_toggle"
    /\ log' = Append(log, Call(stepIdx, "click", playSteps[stepIdx].selector, o))
    /\ IF o = "ok"
       THEN /\ dom' = ClickElement(dom, playSteps[stepIdx].selector)
            /\ NextStep
       ELSE /\ Abort(o)
            /\ UNCHANGED dom
    /\ UNCHANGED <<playName, playSteps, playUrl, playDriver, timedOut, charIdx, fieldBefore>>
    /\ UNCHANGED <<recVars, repoVars, toolVars>>

\* for character in step.value: element.send_keys(character); time.sleep(...)
\* The browser puts the character at the end of the field.
PlayType(o) ==
    /\ ppc = "play_type"
    /\ log' = Append(log, Call(stepIdx, "send_keys",
                               Chars(playSteps[stepIdx].value)[charIdx], o))
    /\ IF o = "ok"
       THEN /\ dom' = [dom EXCEPT ![playSteps[stepIdx].selector].value =
                         Append(@, Chars(playSteps[stepIdx].value)[charIdx])]
            /\ IF charIdx = Len(Chars(playSteps[stepIdx].value))
               THEN /\ NextStep
                    /\ charIdx' = 0
               ELSE /\ charIdx' = charIdx + 1
                    /\ UNCHANGED <<ppc, stepIdx, playError>>
       ELSE /\ Abort(o)
            /\ UNCHANGED <<dom, charIdx>>
    /\ UNCHANGED <<playName, playSteps, playUrl, playDriver, timedOut, fieldBefore>>
    /\ UNCHANGED <<recVars, repoVars, toolVars>>

\* PlayQuit letting the error of driver.quit() go on to the caller.
PlayQuitEscalates(o) ==
    /\ ppc = "play_quit"
    /\ playDriver' = IF o = "ok" THEN "closed" ELSE "quit_failed"
    /\ ppc' = IF o # "ok" THEN "err_webdriver"
              ELSE IF playError.kind = "timeout" THEN "err_timeout"
              ELSE IF playError.kind = "webdriver" THEN "err_webdriver"
              ELSE "play_ok"
    /\ UNCHANGED <<playName, playSteps, playUrl, stepIdx, playError, timedOut, pageVars>>
    /\ UNCHANGED <<recVars, repoVars, toolVars>>

\* finally: try: driver.quit() except WebDriverException: log
\* and then play returns, or the error of the step goes on to the caller.
PlayQuit(o) ==
    /\ ppc = "play_quit"
    /\ playDriver' = IF o = "ok" THEN "closed" ELSE "quit_failed"
    /\ ppc' = IF playError.kind = "timeout" THEN "err_timeout"
              ELSE IF playError.kind = "webdriver" THEN "err_webdriver"
              ELSE "play_ok"
    /\ UNCHANGED <<playName, playSteps, playUrl, stepIdx, playError, timedOut, pageVars>>
    /\ UNCHANGED <<recVars, repoVars, toolVars>>

\* The call has returned or raised; a later call starts afresh.
PlayReturn ==
    /\ ppc \in PlayEnded
    /\ ppc' = "idle"
    /\ playName' = NoArg
    /\ playSteps' = <<>>
    /\ playUrl' = ""
    /\ playDriver' = "none"
    /\ stepIdx' = 0
    /\ playError' = NoError
    /\ timedOut' = 0
    /\ dom' = NoPage
    /\ log' = <<>>
    /\ charIdx' = 0
    /\ fieldBefore' = <<>>
    /\ UNCHANGED <<recVars, repoVars, toolVars>>

PlayNames == {"demo", "ghost"}

PlayNext ==
    \/ \E name \in PlayNames : PlayExecute(name)
    \/ \E o \in {"ok", "WebDriverException"} : PlayOpen(o)
    \/ \E o \in {"ok", "WebDriverException"} : PlayGet(o)
    \/ \E o \in PlayOutcomes : PlayStep(o)
    \/ \E o \in {"ok", "WebDriverException"} : PlayClick(o)
    \/ \E o \in ElementOutcomes : PlayInput(o)
    \/ \E o \in {"ok", "WebDriverException"} : PlayToggle(o)
    \/ \E o \in {"ok", "WebDriverException"} : PlayType(o)
    \/ \E o \in {"ok", "WebDriverException"} : PlayQuit(o)
    \/ PlayReturn

PlayerInit ==
    /\ ppc = "idle"
    /\ playName = NoArg
    /\ playSteps = <<>>
    /\ playUrl = ""
    /\ playDriver = "none"
    /\ stepIdx = 0
    /\ playError = NoError
    /\ timedOut = 0
    /\ dom = NoPage
    /\ log = <<>>
    /\ charIdx = 0
    /\ fieldBefore = <<>>

\* ------------------------------------------------ the stores that are replayed
\* Steps as the recorder stores them: a click, an input in a text field, a
\* step without a selector, a step of an action the player does not know, a
\* change of a select, a change of a checkbox to checked and to unchecked,
\* and a change of a radio button (which the page reports when it becomes
\* checked).
StepKinds ==
    { [action |-> "click", selector |-> "#submit", value |-> None,
       metadata |-> [target |-> [tag |-> "button", inputType |-> "submit", checked |-> None]]],
      [action |-> "input", selector |-> "#name", value |-> "Ana",
       metadata |-> [target |-> [tag |-> "input", inputType |-> "text", checked |-> "False"]]],
      [action |-> "click", selector |-> None, value |-> None,
       metadata |-> [target |-> [tag |-> None, inputType |-> None, checked |-> None]]],
      [action |-> "keydown", selector |-> "#name", value |-> None,
       metadata |-> [target |-> [tag |-> "input", inputType |-> "text", checked |-> "False"]]],
      [action |-> "change", selector |-> "#color", value |-> "b",
       metadata |-> [target |-> [tag |-> "select", inputType |-> "select-one", checked |-> None]]],
      [action |-> "change", selector |-> "#agree", value |-> "on",
       metadata |-> [target |-> [tag |-> "input", inputType |-> "checkbox", checked |-> "True"]]],
      [action |-> "change", selector |-> "#agree", value |-> "on",
       metadata |-> [target |-> [tag |-> "input", inputType |-> "checkbox", checked |-> "False"]]],
      [action |-> "change", selector |-> "#plan", value |-> "on",
       metadata |-> [target |-> [tag |-> "input", inputType |-> "radio", checked |-> "True"]]] }

StepLists == UNION {[1 .. n -> StepKinds] : n \in 0 .. MaxSteps}

StoredMacro(name, steps) ==
    MacroToDict([name |-> name, start_url |-> "https://b/home", recorded_at |-> 1,
                 steps |-> steps, metadata |-> [title |-> "Title"]])

OtherMacro == StoredMacro("other", <<>>)

PlayStores ==
    {<<>>, <<OtherMacro>>}
       \cup {<<StoredMacro("demo", steps)>> : steps \in StepLists}
       \cup {<<OtherMacro, StoredMacro("demo", steps)>> : steps \in StepLists}

\* ------------------------------- JsonMacroRepository and ListMacros, called
\* The macros handed to save: a name, an instant of recording, some steps.
RepoNames == {"demo", "other", "third"}
Stamps == 1 .. MaxStamps

RepoStepLists ==
    {<<>>} \cup {<<a, b>> \in StepKinds \X StepKinds : a.action = "input" /\ b.action = "click"
                                                       /\ b.selector # None}

RepoMacros ==
    {[name |-> name, start_url |-> "https://b/home", recorded_at |-> at,
      steps |-> steps, metadata |-> [title |-> "Title"]] :
         name \in RepoNames, at \in Stamps, steps \in RepoStepLists}

\* repository.save(macro), under the repository's lock
RepoSave(macro) ==
    /\ storage' = Save(storage, macro)
    /\ lastOp' = [op |-> "save", name |-> macro.name, before |-> Len(storage)]
    /\ saved' = [saved EXCEPT ![macro.name] = macro]
    /\ got' = NoMacro
    /\ listed' = <<>>

\* a delete that keeps only what stands before the name
DeleteTruncates(data, name) ==
    IF ExistingIndex(data, name) # 0 THEN SubSeq(data, 1, ExistingIndex(data, name) - 1)
    ELSE data

\* data = [item for item in self._read_all() if item["name"] != name]
Delete(data, name) == SelectSeq(data, LAMBDA item : item.name # name)

\* DeleteMacro.execute(name): repository.delete(name)
RepoDelete(name) ==
    /\ storage' = Delete(storage, name)
    /\ lastOp' = [op |-> "delete", name |-> name, before |-> Len(storage)]
    /\ saved' = [saved EXCEPT ![name] = NoMacro]
    /\ got' = NoMacro
    /\ listed' = <<>>

\* repository.get(name)
RepoGet(name) ==
    /\ got' = Get(storage, name)
    /\ lastOp' = [op |-> "get", name |-> name, before |-> Len(storage)]
    /\ listed' = <<>>
    /\ UNCHANGED <<storage, saved>>

\* return [Macro.from_dict(item) for item in self._read_all()]
ListAll(data) == [i \in 1 .. Len(data) |-> MacroFromDict(data[i])]

\* list.sort(key, reverse=True) is stable: an element goes behind every
\* element whose key is not smaller than its own.
SortPlace(sorted, macro) ==
    Cardinality({i \in 1 .. Len(sorted) : sorted[i].recorded_at >= macro.recorded_at})

RECURSIVE SortAscending(_)
SortAscending(macros) ==
    IF macros = <<>> THEN <<>>
    ELSE LET rest == SortAscending(SubSeq(macros, 1, Len(macros) - 1))
             macro == macros[Len(macros)]
             place == Cardinality({i \in 1 .. Len(rest) :
                                     rest[i].recorded_at <= macro.recorded_at})
         IN SubSeq(rest, 1, place) \o <<macro>> \o SubSeq(rest, place + 1, Len(rest))

\* macros.sort(key=lambda macro: macro.recorded_at, reverse=True)
RECURSIVE SortByRecordedAtDescending(_)
SortByRecordedAtDescending(macros) ==
    IF macros = <<>> THEN <<>>
    ELSE LET rest == SortByRecordedAtDescending(SubSeq(macros, 1, Len(macros) - 1))
             macro == macros[Len(macros)]
             place == SortPlace(rest, macro)
         IN SubSeq(rest, 1, place) \o <<macro>> \o SubSeq(rest, place + 1, Len(rest))

\* ListMacros.execute()
RepoList ==
    /\ listed' = SortByRecordedAtDescending(ListAll(storage))
    /\ lastOp' = [op |-> "list", name |-> NoArg, before |-> Len(storage)]
    /\ got' = NoMacro
    /\ UNCHANGED <<storage, saved>>

RepoOthers == <<lock, recording, driver, events, polling_thread, start_url, drvState,
                pageBuffer, poll, pollBatch, pc, arg, final_events, title, result,
                clock, captured, stopSession, stopMark, injectFailed, stopLog>>

RepoNext ==
    \/ \E macro \in RepoMacros : RepoSave(macro) /\ UNCHANGED <<RepoOthers, playVars, toolVars>>
    \/ \E name \in RepoNames : RepoDelete(name) /\ UNCHANGED <<RepoOthers, playVars, toolVars>>
    \/ \E name \in RepoNames : RepoGet(name) /\ UNCHANGED <<RepoOthers, playVars, toolVars>>
    \/ RepoList /\ UNCHANGED <<RepoOthers, playVars, toolVars>>

RepoInit ==
    /\ lastOp = [op |-> "none", name |-> NoArg, before |-> 0]
    /\ got = NoMacro
    /\ listed = <<>>
    /\ saved = [name \in RepoNames |-> NoMacro]

\* ------------------------------------------------------- cssPath (the page)
\* The elements of a page, numbered in document order among siblings: element
\* 1 is the root (its parentElement is null, written 0), every other element
\* has an earlier element as its parent.
Elements == 1 .. MaxNodes
NodeNames == {"DIV", "P"}
Ids == {"", "main", "a.b"}

Doms ==
    {d \in [Elements -> [nodeName : NodeNames, id : Ids, parentElement : 0 .. MaxNodes - 1]] :
        \A el \in Elements : /\ d[el].parentElement < el
                             /\ (el > 1 => d[el].parentElement >= 1)}

\* String.prototype.toLowerCase on the node names of the page
ToLowerCase(name) == IF name = "DIV" THEN "div" ELSE IF name = "P" THEN "p" ELSE name

\* CSS.escape: a character that is not an identifier character gets a backslash
CssEscape(id) == IF id = "a.b" THEN "a\\.b" ELSE id

\* `${nth}`
NumberToString(n) == <<"0", "1", "2", "3", "4", "5", "6", "7", "8", "9">>[n + 1]

\* sib.previousElementSibling, 0 for null
PreviousElementSibling(d, el) ==
    LET before == {s \in Elements : s < el /\ d[s].parentElement = d[el].parentElement}
    IN IF el = 1 \/ before = {} THEN 0
       ELSE CHOOSE s \in before : \A r \in before : r <= s

\* while (sib = sib.previousElementSibling) { if (... === selector) nth += 1; }
RECURSIVE CountNth(_, _, _, _)
CountNth(d, sib, selector, nth) ==
    LET prev == PreviousElementSibling(d, sib)
    IN IF prev = 0 THEN nth
       ELSE CountNth(d, prev, selector,
                     IF <<ToLowerCase(d[prev].nodeName)>> = selector THEN nth + 1 ELSE nth)

\* the selector of one element, without the index among its siblings
SelectorWithoutIndex(d, el) ==
    LET selector == <<ToLowerCase(d[el].nodeName)>>
    IN IF d[el].id # ""
       THEN selector \o <<"#", CssEscape(d[el].id)>>
       ELSE selector

\* One turn of the loop of cssPath: the selector that is unshifted for el.  A
\* string is the sequence of the pieces it is concatenated from.
SelectorOf(d, el) ==
    LET selector == <<ToLowerCase(d[el].nodeName)>>
    IN IF d[el].id # ""
       THEN selector \o <<"#", CssEscape(d[el].id)>>
       ELSE LET nth == CountNth(d, el, selector, 1)
            IN IF nth # 1
               THEN selector \o <<":nth-of-type(", NumberToString(nth), ")">>
               ELSE selector

\* while (el && el.nodeType === Node.ELEMENT_NODE) { ... path.unshift(selector);
\* [break, if el.id]; el = el.parentElement; }
RECURSIVE Walk(_, _, _)
Walk(d, el, path) ==
    IF el = 0 THEN path
    ELSE IF d[el].id # "" THEN <<SelectorOf(d, el)>> \o path
    ELSE Walk(d, d[el].parentElement, <<SelectorOf(d, el)>> \o path)

\* Array.prototype.join
RECURSIVE Join(_, _)
Join(path, separator) ==
    IF path = <<>> THEN <<>>
    ELSE IF Len(path) = 1 THEN path[1]
    ELSE path[1] \o <<separator>> \o Join(Tail(path), separator)

cssPath(d, el) == Join(Walk(d, el, <<>>), " > ")

\* pushEvent: selector: cssPath(target)
PushEvent ==
    /\ cssTarget # 0
    /\ cssSelector = <<>>
    /\ cssSelector' = cssPath(cssDom, cssTarget)
    /\ UNCHANGED <<cssDom, cssTarget>>
    /\ UNCHANGED <<recVars, playVars, repoVars, factoryVars, guiVars>>

CssIdle ==
    /\ cssDom = <<>>
    /\ cssTarget = 0
    /\ cssSelector = <<>>

CssInit ==
    /\ cssDom \in Doms
    /\ cssTarget \in Elements
    /\ cssSelector = <<>>

\* ------------------------------------------------- create_firefox_driver
\* The paths the argument and the environment variables may hold, and the
\* file system they are looked up in: two executables, one of them on the
\* search path and one under the user's home, a directory, and nothing else.
FxPaths == {"/opt/firefox/firefox", "/opt/firefox", "/opt/missing", "firefox", "geckofox",
            "~/ff/firefox"}
IsFile(path) == path \in {"/opt/firefox/firefox", "/usr/bin/firefox", "/home/u/ff/firefox"}
Exists(path) == IsFile(path) \/ path = "/opt/firefox"
IsAbsolute(path) == path \in {"/opt/firefox/firefox", "/opt/firefox", "/opt/missing",
                              "/usr/bin/firefox", "/home/u/ff/firefox"}
ExpandUser(path) == IF path = "~/ff/firefox" THEN "/home/u/ff/firefox" ELSE path
\* shutil.which: None for a name that is not on the search path
Which(name) == IF name = "firefox" THEN "/usr/bin/firefox" ELSE None

FxConfigs ==
    [firefox_binary : FxPaths \cup {None},
     FIREFOX_BINARY : FxPaths \cup {None, ""},
     FIREFOX_BIN : FxPaths \cup {None, ""}]

NoFxError == [source |-> None, path |-> None]

\* _normalise_executable_path
NormaliseExecutablePath(path) ==
    LET expanded == ExpandUser(path)
    IN IF IsAbsolute(expanded) THEN expanded
       ELSE IF Which(expanded) # None THEN Which(expanded)
       ELSE expanded

\* candidates: the argument if it is not None, then each environment variable
\* whose value is not empty
Candidates(config) ==
    (IF config.firefox_binary # None
     THEN <<[source |-> "firefox_binary parameter", raw_path |-> config.firefox_binary]>>
     ELSE <<>>)
    \o (IF config.FIREFOX_BINARY \notin {None, ""}
        THEN <<[source |-> "environment variable FIREFOX_BINARY",
                raw_path |-> config.FIREFOX_BINARY]>>
        ELSE <<>>)
    \o (IF config.FIREFOX_BIN \notin {None, ""}
        THEN <<[source |-> "environment variable FIREFOX_BIN",
                raw_path |-> config.FIREFOX_BIN]>>
        ELSE <<>>)

\* a lookup that passes over a candidate that is not a file
RECURSIVE ResolveSkippingInvalid(_)
ResolveSkippingInvalid(candidates) ==
    IF candidates = <<>> THEN [raised |-> FALSE, source |-> None, path |-> None]
    ELSE LET resolved_path == NormaliseExecutablePath(candidates[1].raw_path)
         IN IF ~Exists(resolved_path) \/ ~IsFile(resolved_path)
            THEN ResolveSkippingInvalid(Tail(candidates))
            ELSE [raised |-> FALSE, source |-> candidates[1].source, path |-> resolved_path]

\* for source, raw_path in candidates: ... raise RuntimeError / return
\* resolved_path; return None
ResolveFirefoxBinary(candidates) ==
    IF candidates = <<>> THEN [raised |-> FALSE, source |-> None, path |-> None]
    ELSE LET resolved_path == NormaliseExecutablePath(candidates[1].raw_path)
         IN IF ~Exists(resolved_path) \/ ~IsFile(resolved_path)
            THEN [raised |-> TRUE, source |-> candidates[1].source, path |-> resolved_path]
            ELSE [raised |-> FALSE, source |-> candidates[1].source, path |-> resolved_path]

\* binary_location = _resolve_firefox_binary(firefox_binary)
\* if binary_location is not None: options.binary_location = str(binary_location)
FxResolve ==
    /\ fxPc = "resolve"
    /\ LET found == ResolveFirefoxBinary(Candidates(fxConfig))
       IN IF found.raised
          THEN /\ fxPc' = "err_binary"
               /\ fxError' = [source |-> found.source, path |-> found.path]
               /\ UNCHANGED binary_location
          ELSE /\ fxPc' = "launch"
               /\ binary_location' = found.path
               /\ UNCHANGED fxError
    /\ UNCHANGED <<fxConfig, fxBrowser>>
    /\ UNCHANGED <<recVars, playVars, repoVars, cssVars, guiVars>>

\* driver = webdriver.Firefox(options=options), with the InvalidArgumentException
\* about the binary turned into a RuntimeError
FxLaunch(o) ==
    /\ fxPc = "launch"
    /\ IF o = "ok"
       THEN fxPc' = "maximize" /\ fxBrowser' = "launched"
       ELSE IF o = "binary is not a firefox executable"
       THEN fxPc' = "err_not_executable" /\ UNCHANGED fxBrowser
       ELSE fxPc' = "err_selenium" /\ UNCHANGED fxBrowser
    /\ UNCHANGED <<fxConfig, binary_location, fxError>>
    /\ UNCHANGED <<recVars, playVars, repoVars, cssVars, guiVars>>

\* driver.maximize_window(); return driver
FxMaximize ==
    /\ fxPc = "maximize"
    /\ fxPc' = "created"
    /\ fxBrowser' = "maximized"
    /\ UNCHANGED <<fxConfig, binary_location, fxError>>
    /\ UNCHANGED <<recVars, playVars, repoVars, cssVars, guiVars>>

FxNext ==
    \/ FxResolve
    \/ \E o \in {"ok", "binary is not a firefox executable", "other"} : FxLaunch(o)
    \/ FxMaximize

FxIdle ==
    /\ fxConfig = [firefox_binary |-> None, FIREFOX_BINARY |-> None, FIREFOX_BIN |-> None]
    /\ fxPc = "idle"
    /\ binary_location = None
    /\ fxError = NoFxError
    /\ fxBrowser = "none"

FxInit ==
    /\ fxConfig \in FxConfigs
    /\ fxPc = "resolve"
    /\ binary_location = None
    /\ fxError = NoFxError
    /\ fxBrowser = "none"

\* ------------------------------------------------------------- the window
GuiIdle ==
    /\ is_recording = FALSE
    /\ uiQueue = <<>>
    /\ task = [t \in Callers |-> "none"]

\* a thread slot is free when no task runs in it
Free(t) == task[t] \in {"none", "done"} /\ pc[t] = "idle"

\* MacroApp._start_recording (the Start button, the URL and the name filled
\* in): a click while a recording is shown does nothing; otherwise the
\* window shows the recording at once and starts the task in a thread.
GuiStartClick(t) ==
    /\ Free(t)
    /\ Len(uiQueue) <= MaxPending
    /\ ~is_recording
    /\ is_recording' = TRUE
    /\ task' = [task EXCEPT ![t] = "start"]
    /\ UNCHANGED uiQueue
    /\ UNCHANGED <<recVars, playVars, repoVars, cssVars, factoryVars>>

\* MacroApp._stop_recording (the Stop button): a click while no recording is
\* shown does nothing; otherwise the task starts in a thread.
GuiStopClick(t) ==
    /\ Free(t)
    /\ Len(uiQueue) <= MaxPending
    /\ is_recording
    /\ task' = [task EXCEPT ![t] = "stop"]
    /\ UNCHANGED <<is_recording, uiQueue>>
    /\ UNCHANGED <<recVars, playVars, repoVars, cssVars, factoryVars>>

\* the task's call of start_recording.execute(url) or
\* stop_recording.execute(macro_name), one step of it
GuiTaskStep(t) ==
    \/ task[t] = "start" /\ \E url \in Urls : StartEnter(t, url)
    \/ task[t] = "stop" /\ \E name \in Names : StopEnter(t, name)
    \/ StartOpen(t, "ok")
    \/ StartGet(t, "ok")
    \/ StartInject(t, "ok")
    \/ StopFetch(t, "ok")
    \/ StopExtend(t)
    \/ StopTitle(t, "ok")
    \/ StopQuit(t, "ok")
    \/ StopCopy(t)
    \/ StopSave(t)

\* the rest of task(): a start that raised asks the window to show no
\* recording; a stop asks for that whether it returned or raised.
GuiTaskEnd(t) ==
    /\ task[t] \in {"start", "stop"}
    /\ pc[t] \in Ended
    /\ uiQueue' = IF task[t] = "start" /\ pc[t] = "start_ok"
                  THEN uiQueue
                  ELSE Append(uiQueue, FALSE)
    /\ task' = [task EXCEPT ![t] = "done"]
    /\ UNCHANGED is_recording
    /\ UNCHANGED <<recVars, playVars, repoVars, cssVars, factoryVars>>

\* the thread of a finished task ends
GuiThreadExit(t) == task[t] = "done" /\ Return(t)

\* the event loop runs the oldest callback: _toggle_recording_state(recording)
GuiCallback ==
    /\ uiQueue # <<>>
    /\ is_recording' = Head(uiQueue)
    /\ uiQueue' = Tail(uiQueue)
    /\ UNCHANGED task
    /\ UNCHANGED <<recVars, playVars, repoVars, cssVars, factoryVars>>

GuiNext ==
    \/ \E t \in Callers : GuiStartClick(t)
    \/ \E t \in Callers : GuiStopClick(t)
    \/ \E t \in Callers : GuiTaskStep(t)
    \/ \E t \in Callers : GuiTaskEnd(t)
    \/ \E t \in Callers : GuiThreadExit(t)
    \/ GuiCallback
    \/ \E d \in Drivers : captured = <<>> /\ PageCapture(d)
    \/ \E p \in Drivers : PollCheck(p)
    \/ \E p \in Drivers : PollFetch(p, "ok")
    \/ \E p \in Drivers : PollExtend(p)

\* ---------------------------------------------------------- specifications
ToolIdle == CssIdle /\ FxIdle /\ GuiIdle

Init == RecInit /\ storage = <<>> /\ PlayerInit /\ RepoInit /\ ToolIdle

PlayInit == RecInit /\ storage \in PlayStores /\ PlayerInit /\ RepoInit /\ ToolIdle

\* two callers of the recorder, a browser that never fails
SpecRec == Init /\ [][RecNext(Callers, Reliable)]_vars

\* one caller at a time, a browser that never fails
SpecRecSeq == Init /\ [][RecNext({"t1"}, Reliable)]_vars

\* one caller at a time, a browser whose calls may raise
SpecRecFaulty == Init /\ [][RecNext({"t1"}, Faulty)]_vars

\* play-macro against a stored set, a browser whose calls may raise
SpecPlay == PlayInit /\ [][PlayNext]_vars

\* save, get, delete and list-macros in any order, from an empty store
SpecRepo == Init /\ [][RepoNext]_vars

\* ------------------------------------------------------- the use cases together
\* One thread records, under either of two names; play-macro, delete-macro
\* and list-macros run while nothing is recorded, as the window lets them.
AppNames == {"demo", "other"}

\* a macro that an earlier run recorded and saved
EarlierMacro ==
    MakeMacro("demo", [start_url |-> "https://b/home", title |-> "Title", steps |-> <<>>], 0)

\* no recording is under way: the window enables Play, Delete and Refresh
NotRecording ==
    /\ pc["t1"] = "idle"
    /\ ~recording
    /\ \A p \in Drivers : poll[p] \in {"none", "done"}

AppNext ==
    \/ ppc = "idle" /\ RecSteps({"t1"}, Reliable, AppNames)
    \/ NotRecording /\ PlayNext
    \/ /\ NotRecording /\ ppc = "idle"
       /\ \E name \in AppNames : RepoDelete(name)
       /\ UNCHANGED <<RepoOthers, playVars, toolVars>>
    \/ /\ NotRecording /\ ppc = "idle"
       /\ RepoList
       /\ UNCHANGED <<RepoOthers, playVars, toolVars>>

\* the use cases over one repository, which holds a macro of an earlier run
AppInit ==
    /\ RecInit /\ PlayerInit /\ RepoInit /\ ToolIdle
    /\ storage = <<MacroToDict(EarlierMacro)>>

SpecApp == AppInit /\ [][AppNext]_vars

\* the window with its Start and Stop buttons, the tasks they start in
\* threads, and the recorder with a browser that never fails and a page on
\* which one event happens
SpecGui == Init /\ [][GuiNext]_vars

\* cssPath applied to an element of a page
CssSpecInit ==
    RecInit /\ storage = <<>> /\ PlayerInit /\ RepoInit /\ CssInit /\ FxIdle /\ GuiIdle

SpecCss == CssSpecInit /\ [][PushEvent]_vars

\* create_firefox_driver under a configuration of its argument and environment
FxSpecInit ==
    RecInit /\ storage = <<>> /\ PlayerInit /\ RepoInit /\ CssIdle /\ FxInit /\ GuiIdle

SpecFactory == FxSpecInit /\ [][FxNext]_vars

\* ------------------------------------------------------------- properties
\* how often the event captured as the n-th one appears among steps
Occurrences(steps, n) ==
    Cardinality({i \in 1 .. Len(steps) : steps[i].metadata.timestamp = n})

\* C1: a start(url) that takes the lock while a session is recording ends
\* with the "already running" error and has no side effect: no browser is
\* opened, and the recording flag, the steps, the start URL, the owned driver,
\* the poll loop and the lock are as they were.
C1_StartWhileRecordingRejected ==
    [][\A t \in Callers :
          (pc[t] = "idle" /\ pc'[t] \in (StartPcs \cup {"err_already"}) /\ recording)
             => /\ pc'[t] = "err_already"
                /\ UNCHANGED <<lock, recFields, browser, pollVars, repo>>]_vars

C1_Witness ==
    \E t \in Callers :
        /\ pc[t] = "err_already"
        /\ recording
        /\ driver # NoDriver
        /\ events # <<>>

\* C2: stop-recording(name) entered when no session is active ends with the
\* "not active" error and leaves storage as it was.
C2_StopWhenInactiveRejected ==
    [][\A t \in Callers :
          (pc[t] = "idle" /\ pc'[t] \in (StopPcs \cup {"err_notactive"}) /\ ~recording)
             => /\ pc'[t] = "err_notactive"
                /\ UNCHANGED <<storage, clock>>]_vars

C2_Witness ==
    \E t \in Callers :
        /\ pc[t] = "err_notactive"
        /\ ~recording
        /\ storage # <<>>

\* C3: start and stop exclude each other, so a stop closes no browser other
\* than the one of the session it is ending.
C3_StopClosesOnlyItsOwnSession ==
    [][\A t \in Callers :
          (pc[t] = "stop_quit" /\ pc'[t] = "stop_copy")
             => \A d \in Drivers : drvState'[d] # drvState[d] => d = stopSession[t]]_vars

\* C4: every event the page captured between start and the entry of the
\* matching stop appears exactly once in the steps that stop returns (stated
\* for runs with a single session, in which no browser call fails).
C4_EveryEventExactlyOnce ==
    \A t \in Callers :
        (pc[t] = "stop_save" /\ Cardinality(Opened) = 1)
           => \A n \in 1 .. stopMark[t] :
                 captured[n] = stopSession[t] => Occurrences(result[t].steps, n) = 1

\* C5: the steps stop returns are in capture order (stated for runs with a
\* single session, in which no browser call fails).
C5_StepsInCaptureOrder ==
    \A t \in Callers :
        (pc[t] = "stop_save" /\ Cardinality(Opened) = 1)
           => \A i, j \in 1 .. Len(result[t].steps) :
                 i < j => result[t].steps[i].metadata.timestamp
                            < result[t].steps[j].metadata.timestamp

\* C7: when no recorder call is in progress, no browser the recorder opened
\* is still open without being the recorder's driver.
C7_NoSessionLeftOpen ==
    (\A t \in Callers : pc[t] = "idle")
       => \A d \in Drivers : Live(d) => driver = d

\* C8: when stop-recording(name) has saved, storage holds exactly one macro
\* named name, with the steps the recorder returned, in that order, and the
\* start URL the recorder returned.
C8_StopRecordingSavesTheResult ==
    [][\A t \in Callers :
          (pc[t] = "stop_save" /\ pc'[t] = "stop_ok")
             => /\ Cardinality({i \in 1 .. Len(storage') : storage'[i].name = arg[t]}) = 1
                /\ \A i \in 1 .. Len(storage') :
                      storage'[i].name = arg[t]
                         => /\ storage'[i].steps = result[t].steps
                            /\ storage'[i].start_url = result[t].start_url]_vars

C8_Witness ==
    \E t \in Callers :
        /\ pc[t] = "stop_ok"
        /\ Len(result[t].steps) = 2
        /\ result[t].start_url = "https://b/home"
        /\ clock = 3
        /\ Len(storage) = 1
        /\ storage[1].name = "demo"
        /\ storage[1].steps = result[t].steps

\* C6: on every path by which play ends, the browser it opened has been
\* asked to quit.
C6_PlayAlwaysQuits ==
    ppc \in PlayEnded => playDriver # "open"

\* C9: play-macro(name) for a name that is not stored fails with the
\* not-found error; play is not called and no browser is opened.
C9_PlayOfAbsentNameOpensNoBrowser ==
    (ppc # "idle" /\ ~(\E i \in 1 .. Len(storage) : storage[i].name = playName))
       => (ppc = "err_notfound" /\ playDriver = "none")

C9_Witness ==
    /\ ppc = "err_notfound"
    /\ playName = "ghost"
    /\ storage # <<>>

\* C10: when the wait for a step's element runs out, play ends with the
\* timeout error that names that step's selector and action, and by then
\* quit has been called on the browser.
C10_TimeoutNamesTheStepAndQuits ==
    (timedOut # 0 /\ ppc \in PlayEnded)
       => /\ ppc = "err_timeout"
          /\ playError = [kind |-> "timeout",
                          selector |-> playSteps[timedOut].selector,
                          action |-> playSteps[timedOut].action]
          /\ playDriver \in {"closed", "quit_failed"}

C10_Witness ==
    /\ ppc = "err_timeout"
    /\ timedOut = 2
    /\ playSteps[1].selector # playSteps[2].selector
    /\ playError.selector = "#name"
    /\ playError.action = "input"
    /\ playDriver = "closed"

\* how many entries of the stored list carry the name
Stored(data, name) == Cardinality({i \in 1 .. Len(data) : data[i].name = name})

\* C12: from an empty store, after any saves and deletes, storage holds at
\* most one macro per name; a save under a stored name puts the new macro in
\* the place of the old entry, and the number of stored macros stays the same.
C12_SaveOverwritesByName ==
    [][/\ \A name \in RepoNames : Stored(storage', name) <= 1
       /\ \A macro \in RepoMacros :
             (RepoSave(macro) /\ Stored(storage, macro.name) > 0)
                => /\ Len(storage') = Len(storage)
                   /\ \A i \in 1 .. Len(storage) :
                         IF storage[i].name = macro.name
                         THEN /\ storage'[i].name = macro.name
                              /\ storage'[i].start_url = macro.start_url
                              /\ storage'[i].steps = macro.steps
                              /\ storage'[i].recorded_at = IsoFormat(macro.recorded_at)
                         ELSE storage'[i] = storage[i]]_vars

C12_Witness ==
    /\ lastOp = [op |-> "save", name |-> "demo", before |-> 3]
    /\ Len(storage) = 3
    /\ storage[1].name = "demo"
    /\ storage[1].recorded_at = IsoFormat(3)
    /\ storage[2].recorded_at = IsoFormat(1)
    /\ Len(storage[1].steps) = 2

\* C13: get(M.name), after save(M) and any operations that neither save nor
\* delete M.name, returns a macro with the name, the start URL and the steps
\* of M: as many steps, in the same order, each with the same action,
\* selector, value and metadata.
C13_SaveThenGetRoundTrip ==
    (lastOp.op = "get" /\ saved[lastOp.name] # NoMacro)
       => /\ got # NoMacro
          /\ got.name = saved[lastOp.name].name
          /\ got.start_url = saved[lastOp.name].start_url
          /\ Len(got.steps) = Len(saved[lastOp.name].steps)
          /\ \A i \in 1 .. Len(got.steps) :
                /\ got.steps[i].action = saved[lastOp.name].steps[i].action
                /\ got.steps[i].selector = saved[lastOp.name].steps[i].selector
                /\ got.steps[i].value = saved[lastOp.name].steps[i].value
                /\ got.steps[i].metadata = saved[lastOp.name].steps[i].metadata

C13_Witness ==
    /\ lastOp.op = "get"
    /\ lastOp.name = "other"
    /\ Len(storage) = 3
    /\ storage[2].name = "other"
    /\ got.name = "other"
    /\ Len(got.steps) = 2
    /\ got.steps[1].value = "Ana"
    /\ got.steps[2].action = "click"
    /\ got.recorded_at = 2

\* C14: delete(name) always completes; for a name that is not stored it
\* leaves storage as it is; for a stored name it removes the macro of that
\* name and leaves every other macro, and their order, as they were; a second
\* delete(name) right after the first changes nothing.
C14_DeleteIsIdempotent ==
    [][\A name \in RepoNames :
          RepoDelete(name)
             => /\ lastOp'.op = "delete"
                /\ Stored(storage', name) = 0
                /\ Stored(storage, name) = 0 => storage' = storage
                /\ Len(storage') = Len(storage) - Stored(storage, name)
                /\ \A i, j \in 1 .. Len(storage) :
                      (i < j /\ storage[i].name # name /\ storage[j].name # name)
                         => \E k, l \in 1 .. Len(storage') :
                               k < l /\ storage'[k] = storage[i] /\ storage'[l] = storage[j]
                /\ \A i \in 1 .. Len(storage) :
                      storage[i].name # name
                         => \E k \in 1 .. Len(storage') : storage'[k] = storage[i]
                /\ (lastOp.op = "delete" /\ lastOp.name = name) => storage' = storage]_vars

C14_Witness ==
    /\ lastOp = [op |-> "delete", name |-> "other", before |-> 3]
    /\ Len(storage) = 2
    /\ storage[1].name = "demo"
    /\ storage[2].name = "third"

\* C15: list-macros returns every stored macro exactly once and leaves
\* storage as it is; when the stored macros were recorded at distinct
\* instants, the list is in descending order of recorded_at.
C15_ListIsNewestFirst ==
    [][RepoList
          => /\ storage' = storage
             /\ Len(listed') = Len(storage)
             /\ \A name \in RepoNames :
                   Cardinality({i \in 1 .. Len(listed') : listed'[i].name = name})
                      = Stored(storage, name)
             /\ \A i \in 1 .. Len(listed') :
                   \E k \in 1 .. Len(storage) : MacroToDict(listed'[i]) = storage[k]
             /\ (\A i, j \in 1 .. Len(storage) :
                    i # j => storage[i].recorded_at # storage[j].recorded_at)
                  => \A i, j \in 1 .. Len(listed') :
                        i < j => listed'[i].recorded_at > listed'[j].recorded_at]_vars

C15_Witness ==
    /\ lastOp.op = "list"
    /\ Len(listed) = 3
    /\ storage[1].recorded_at = IsoFormat(2)
    /\ storage[2].recorded_at = IsoFormat(3)
    /\ storage[3].recorded_at = IsoFormat(1)
    /\ listed[1].name = storage[2].name
    /\ listed[3].name = storage[3].name

\* C20: while a session is recording, a fetch of the poll loop that fails
\* counts as an empty batch: the loop goes on to its next cycle, the recorder
\* stays recording, and the events the page holds stay there to be collected.
C20_FailedFetchKeepsPolling ==
    [][\A p \in Drivers :
          (/\ poll[p] = "fetch" /\ poll'[p] # "fetch"
           /\ recording /\ driver = p /\ Live(p)
           /\ pageBuffer[p] # <<>> /\ pageBuffer'[p] = pageBuffer[p])
             => /\ poll'[p] = "check"
                /\ recording'
                /\ events' = events]_vars

\* the positions in the log of the calls made for step k
CallsOf(k) == {i \in 1 .. Len(log) : log[i].step = k}

\* C11: play attempts the steps in list order, each at most once; the first
\* step at which a call of the step's action fails with a driver failure ends
\* replay with the driver error that carries that step's action and
\* selector, and no call is made for any later step.  (A failure that
\* _apply_input absorbs, of select_by_value or of clear, is no failure of the
\* step's action.)
C11_DriverFailureAbortsAtThatStep ==
    /\ \A i, j \in 1 .. Len(log) :
          i < j => /\ log[i].step <= log[j].step
                   /\ (log[i].call = "find" /\ log[j].call = "find")
                         => log[i].step < log[j].step
    /\ \A i \in 1 .. Len(log) :
          (/\ log[i].outcome \in {"WebDriverException", "NoSuchElementException"}
           /\ log[i].call \in {"find", "click", "is_selected", "send_keys"})
             => /\ i = Len(log)
                /\ ppc \in {"play_quit", "err_webdriver"}
                /\ playError = [kind |-> "webdriver",
                                selector |-> playSteps[log[i].step].selector,
                                action |-> playSteps[log[i].step].action]

C11_Witness ==
    /\ ppc = "err_webdriver"
    /\ Len(playSteps) = 2
    /\ Len(log) = 2
    /\ log[2].step = 1 /\ log[2].call = "click"
    /\ log[2].outcome = "WebDriverException"
    /\ playSteps[2].selector = "#name"
    /\ playError.action = "click"
    /\ playError.selector = "#submit"

\* C16: a step without a selector, and a step whose action is not click,
\* input or change, causes no call on the driver and no error; replay goes on
\* with the next step, so that a replay that ends well has looked up exactly
\* the other steps, in their order.
C16_SkippedStepsTouchNothing ==
    /\ \A i \in 1 .. Len(log) :
          /\ playSteps[log[i].step].selector # None
          /\ playSteps[log[i].step].action \in {"click", "input", "change"}
    /\ playError # NoError
          => /\ playSteps[stepIdx].selector # None
             /\ playSteps[stepIdx].action \in {"click", "input", "change"}
    /\ ppc = "play_ok"
          => /\ \A k \in 1 .. Len(playSteps) :
                   (/\ playSteps[k].selector # None
                    /\ playSteps[k].action \in {"click", "input", "change"})
                      => \E i \in CallsOf(k) : log[i].call = "find"
             /\ \A i, j \in 1 .. Len(log) : i < j => log[i].step <= log[j].step

C16_Witness ==
    /\ ppc = "play_ok"
    /\ Len(playSteps) = 2
    /\ playSteps[1].action = "keydown"
    /\ playSteps[1].selector = "#name"
    /\ playSteps[2].action = "click"
    /\ Len(log) = 2
    /\ log[1].step = 2 /\ log[1].call = "find"
    /\ log[2].step = 2 /\ log[2].call = "click"

\* whether the step is an input/change step captured on a checkbox or radio
CheckStep(step) ==
    /\ step.selector # None
    /\ step.action \in {"input", "change"}
    /\ step.metadata.target.tag # "select"
    /\ step.metadata.target.inputType \in {"checkbox", "radio"}

\* C17: for an input/change step captured on a checkbox or radio, replay
\* clicks the element only if its checked state differs from the captured
\* one, and does not click it if the two agree; replaying the same step twice
\* in a row clicks at most once.
C17_CheckboxTogglesOnlyOnDifference ==
    /\ \A k \in 1 .. Len(playSteps) :
          CheckStep(playSteps[k])
             => \A i \in CallsOf(k) :
                   /\ log[i].call = "click"
                         => /\ log[i - 1].step = k
                            /\ log[i - 1].call = "is_selected"
                            /\ log[i - 1].outcome = "ok"
                            /\ log[i - 1].arg
                                  # (playSteps[k].metadata.target.checked = "True")
                   /\ (/\ log[i].call = "is_selected"
                        /\ log[i].arg = (playSteps[k].metadata.target.checked = "True"))
                         => /\ ~(ppc = "play_toggle" /\ stepIdx = k)
                            /\ \A j \in CallsOf(k) : log[j].call # "click"
    /\ \A k \in 1 .. (Len(playSteps) - 1) :
          (CheckStep(playSteps[k]) /\ playSteps[k + 1] = playSteps[k])
             => Cardinality({i \in CallsOf(k) \cup CallsOf(k + 1) :
                               log[i].call = "click"}) <= 1

C17_Witness ==
    /\ ppc = "play_ok"
    /\ Len(playSteps) = 2
    /\ playSteps[1] = playSteps[2]
    /\ playSteps[1].selector = "#agree"
    /\ playSteps[1].metadata.target.checked = "True"
    /\ Len(log) = 5
    /\ log[2].call = "is_selected" /\ log[2].arg = FALSE
    /\ log[3].call = "click"
    /\ log[5].call = "is_selected" /\ log[5].arg = TRUE
    /\ dom["#agree"].checked

\* whether the step is an input/change step captured on a target that is
\* neither a select nor a checkbox or radio
TextStep(step) ==
    /\ step.selector # None
    /\ step.action \in {"input", "change"}
    /\ step.metadata.target.tag # "select"
    /\ step.metadata.target.inputType \notin {"checkbox", "radio"}

\* the step that has just been replayed, 0 if none
JustReplayed == IF ppc = "play_step" /\ stepIdx > 1 THEN stepIdx - 1 ELSE 0

\* the calls replay made for a text step with value v: the lookup, clear,
\* and send_keys for each character of v in order
TypedInOrder(k) ==
    LET calls == SelectSeq(log, LAMBDA entry : entry.step = k)
        v == Chars(playSteps[k].value)
    IN /\ Len(calls) = Len(v) + 2
       /\ calls[1].call = "find"
       /\ calls[2].call = "clear"
       /\ \A c \in 1 .. Len(v) :
             calls[c + 2].call = "send_keys" /\ calls[c + 2].arg = v[c]

\* C18 as stated: after an input/change step with value v on a text target,
\* replay has cleared the field and sent the characters of v in order, and
\* the field holds v, whatever it held before.
C18_TypedValueReplacesField ==
    (JustReplayed # 0 /\ TextStep(playSteps[JustReplayed]))
       => /\ TypedInOrder(JustReplayed)
          /\ dom[playSteps[JustReplayed].selector].value
                = Chars(playSteps[JustReplayed].value)

\* C18 as amended: replay asks the field to clear, passes over a driver
\* failure of the clear, and sends the characters of v in order; after the
\* step the field holds v if the clear succeeded, and what it held before
\* followed by v if the clear failed.
C18_TypedValueFollowsClear ==
    (JustReplayed # 0 /\ TextStep(playSteps[JustReplayed]))
       => /\ TypedInOrder(JustReplayed)
          /\ \A i \in CallsOf(JustReplayed) :
                log[i].call = "clear"
                   => dom[playSteps[JustReplayed].selector].value
                        = (IF log[i].outcome = "ok" THEN <<>> ELSE fieldBefore)
                             \o Chars(playSteps[JustReplayed].value)

C18_Witness ==
    /\ JustReplayed = 1
    /\ TextStep(playSteps[1])
    /\ fieldBefore = <<"x">>
    /\ Len(log) = 5
    /\ log[2].call = "clear" /\ log[2].outcome = "ok"
    /\ log[3].arg = "A" /\ log[4].arg = "n" /\ log[5].arg = "a"
    /\ dom["#name"].value = <<"A", "n", "a">>

\* C19: a failure to set the option of a select target is absorbed at that
\* step: replay goes on with the next step, and play raises no error because
\* of it.
C19_SelectFailureIsAbsorbed ==
    [][(/\ ppc = "play_input"
        /\ Len(log') = Len(log) + 1
        /\ log'[Len(log')].call = "select_by_value"
        /\ log'[Len(log')].outcome # "ok")
          => /\ ppc' = "play_step"
             /\ stepIdx' = stepIdx + 1
             /\ playError' = NoError
             /\ dom' = dom]_vars

C19_Witness ==
    /\ ppc = "play_ok"
    /\ Len(playSteps) = 2
    /\ Len(log) = 4
    /\ log[2].step = 1 /\ log[2].call = "select_by_value"
    /\ log[2].outcome = "WebDriverException"
    /\ log[3].step = 2 /\ log[3].call = "find"
    /\ log[4].step = 2 /\ log[4].call = "click" /\ log[4].outcome = "ok"
    /\ playError = NoError

\* C21: a failure to fetch the page title during stop does not abort stop:
\* whenever the title step of a stop ends without a title while a browser
\* session is held, stop goes on to close that session (and from there to
\* return the steps and the start URL).
C21_TitleFailureDoesNotAbortStop ==
    [][\A t \in Callers :
          (/\ pc[t] = "stop_title"
           /\ pc'[t] # "stop_title"
           /\ driver # NoDriver
           /\ title'[t] = None)
          => pc'[t] = "stop_quit"]_vars

\* C23: once the poll loop of a session has seen the cleared flag it ends
\* without another fetch, and a poll loop only ever fetches from the browser
\* of its own session, never from that of a later one.
C23_PollLoopServesOnlyItsSession ==
    [][\A p \in Drivers :
          /\ (poll[p] = "check" /\ poll'[p] # "check" /\ ~recording)
             => poll'[p] = "done"
          /\ (/\ poll[p] = "fetch"
              /\ poll'[p] \in {"check", "extend"}
              /\ driver # NoDriver)
             => driver = p]_vars

\* C24: when installing the capture script fails, the start call fails with
\* the recorder not recording, no poll loop started and the lock released;
\* until the next start is let in the recorder stays that way, a stop is
\* refused as not active, and a start is let in and begins with an empty
\* event list.
C24_FailedInjectionLeavesRecorderIdle ==
    [][\A t \in Callers :
          /\ (pc[t] = "start_inject" /\ pc'[t] = "err_inject")
             => /\ ~recording'
                /\ poll' = poll
                /\ polling_thread' = polling_thread
                /\ lock' = "none"
                /\ events' = <<>>
          /\ injectFailed' => ~recording'
          /\ (injectFailed /\ pc[t] = "idle" /\ pc'[t] \in StopPcs \cup {"err_notactive"})
             => pc'[t] = "err_notactive"
          /\ (injectFailed /\ pc[t] = "idle" /\ pc'[t] \in StartPcs \cup {"err_already"})
             => pc'[t] = "start_open" /\ lock' = t]_vars

\* a stop was refused after a start had failed to install the script in an
\* opened browser
C24_Witness ==
    \E t \in Callers :
        /\ injectFailed
        /\ pc[t] = "err_notactive"
        /\ \E d \in Drivers : drvState[d] = "open"

\* C29: the steps a stop is about to hand over all come from events that
\* were captured in the browser of the session this stop ended.
C29_StepsComeFromTheStoppedSession ==
    \A t \in Callers :
        pc[t] = "stop_save" =>
            \A i \in 1 .. Len(result[t].steps) :
                captured[result[t].steps[i].metadata.timestamp] = stopSession[t]

\* C22: when closing the browser at the end of play fails, play ends as the
\* replay did: it returns normally if the loop ran past the last step, and
\* otherwise raises the error of the step that failed, unchanged.
C22_TeardownErrorIsNotEscalated ==
    [][(ppc = "play_quit" /\ ppc' # "play_quit" /\ playDriver' = "quit_failed")
       => /\ playError' = playError
          /\ stepIdx > Len(playSteps)
             => playError.kind = "none" /\ ppc' = "play_ok"
          /\ stepIdx <= Len(playSteps)
             => /\ playError.kind \in {"timeout", "webdriver"}
                /\ playError.selector = playSteps[stepIdx].selector
                /\ ppc' = (IF playError.kind = "timeout" THEN "err_timeout"
                           ELSE "err_webdriver")]_vars

\* a replay that performed calls on the page returned normally although
\* closing the browser failed
C22_Witness ==
    /\ ppc = "play_ok"
    /\ playDriver = "quit_failed"
    /\ Len(log) > 0

\* the j-th ancestor of an element (the element itself for j = 0), 0 beyond the root
RECURSIVE Ancestor(_, _, _)
Ancestor(d, el, j) ==
    IF el = 0 \/ j = 0 THEN el ELSE Ancestor(d, d[el].parentElement, j - 1)

\* where the walk from an element ends: at an element with an id, or at the root
EndsWalk(d, el) == el # 0 /\ (d[el].id # "" \/ d[el].parentElement = 0)

\* how many elements the walk from an element visits
WalkLength(d, el) ==
    CHOOSE k \in 1 .. MaxNodes :
        /\ EndsWalk(d, Ancestor(d, el, k - 1))
        /\ \A j \in 0 .. k - 2 : ~EndsWalk(d, Ancestor(d, el, j))

\* the position of an element among its siblings of the same tag
NthOfType(d, el) ==
    1 + Cardinality({s \in Elements : /\ s < el
                                       /\ d[s].parentElement = d[el].parentElement
                                       /\ d[s].nodeName = d[el].nodeName})

\* tag#id for an element with an id, tag:nth-of-type(n) for every other
IndexedSegment(d, el) ==
    IF d[el].id # ""
    THEN <<ToLowerCase(d[el].nodeName), "#", CssEscape(d[el].id)>>
    ELSE <<ToLowerCase(d[el].nodeName), ":nth-of-type(", NumberToString(NthOfType(d, el)), ")">>

\* the same, with the bare tag for an element that is the first of its tag
SparseSegment(d, el) ==
    IF d[el].id = "" /\ NthOfType(d, el) = 1
    THEN <<ToLowerCase(d[el].nodeName)>>
    ELSE IndexedSegment(d, el)

\* the segments of the visited elements, root-first, joined with ' > '
IndexedSelector(d, el) ==
    LET k == WalkLength(d, el)
    IN Join([i \in 1 .. k |-> IndexedSegment(d, Ancestor(d, el, k - i))], " > ")

SparseSelector(d, el) ==
    LET k == WalkLength(d, el)
    IN Join([i \in 1 .. k |-> SparseSegment(d, Ancestor(d, el, k - i))], " > ")

\* C26 as stated: the selector is made of tag#id for the element with an id
\* that ends the walk and tag:nth-of-type(n) for every element without an id,
\* root-first and joined with ' > '.
C26_EverySegmentIndexed ==
    cssSelector # <<>> => cssSelector = IndexedSelector(cssDom, cssTarget)

\* C26, amended: an element without an id contributes the bare tag when it
\* is the first of its tag among its siblings and tag:nth-of-type(n) when
\* n > 1; an element with an id contributes tag#id and ends the walk; the
\* segments are joined root-first with ' > '.
C26_SegmentsIndexedFromTheSecond ==
    cssSelector # <<>> => cssSelector = SparseSelector(cssDom, cssTarget)

\* the selector of a second paragraph without an id under a root without an id
C26_Witness ==
    /\ cssSelector = <<"div", " > ", "p", ":nth-of-type(", "2", ")">>
    /\ cssTarget # 0
    /\ cssDom[cssTarget].id = ""
    /\ NthOfType(cssDom, cssTarget) = 2

\* the first candidate that is configured, in the order argument,
\* FIREFOX_BINARY, FIREFOX_BIN; an empty environment variable configures none
FirstConfigured(config) ==
    IF config.firefox_binary # None
    THEN [source |-> "firefox_binary parameter", path |-> config.firefox_binary]
    ELSE IF config.FIREFOX_BINARY \notin {None, ""}
    THEN [source |-> "environment variable FIREFOX_BINARY", path |-> config.FIREFOX_BINARY]
    ELSE IF config.FIREFOX_BIN \notin {None, ""}
    THEN [source |-> "environment variable FIREFOX_BIN", path |-> config.FIREFOX_BIN]
    ELSE [source |-> None, path |-> None]

\* what the lookup decided for a first candidate standing for the file `path`
DecidedBy(source, path) ==
    /\ source = None
       => fxPc # "err_binary" /\ binary_location = None
    /\ (source # None /\ IsFile(path))
       => fxPc # "err_binary" /\ binary_location = path
    /\ (source # None /\ ~IsFile(path))
       => /\ fxPc = "err_binary"
          /\ fxError.source = source
          /\ fxBrowser = "none"
          /\ binary_location = None

\* C27 as stated: the first configured candidate decides; if it is an
\* existing file it becomes the binary location, otherwise creation fails
\* naming its source before a browser is launched; with no candidate no
\* binary location is set.
C27_FirstCandidateAsGiven ==
    fxPc \notin {"idle", "resolve"} =>
        DecidedBy(FirstConfigured(fxConfig).source, FirstConfigured(fxConfig).path)

\* C27, amended: the first configured candidate decides, taken after its
\* home reference is expanded and, if it is relative, after it is looked up
\* on the executable search path: if that path is an existing file it becomes
\* the binary location, otherwise creation fails naming the candidate's
\* source before a browser is launched; with no candidate no location is set.
C27_FirstCandidateAsLocated ==
    fxPc \notin {"idle", "resolve"} =>
        DecidedBy(FirstConfigured(fxConfig).source,
                  IF FirstConfigured(fxConfig).source = None THEN None
                  ELSE NormaliseExecutablePath(FirstConfigured(fxConfig).path))

\* a browser was created with the executable a bare command name in
\* FIREFOX_BINARY stands for, although FIREFOX_BIN names a missing file
C27_Witness ==
    /\ fxPc = "created"
    /\ fxConfig.firefox_binary = None
    /\ fxConfig.FIREFOX_BINARY = "firefox"
    /\ fxConfig.FIREFOX_BIN = "/opt/missing"
    /\ binary_location = "/usr/bin/firefox"

\* the stored entries that carry the name, in their order
EntriesOf(data, name) == SelectSeq(data, LAMBDA item : item.name = name)

\* C25: storage changes only in the saving step of a stop-recording and in a
\* delete-macro; the save leaves exactly one entry under its name, the new
\* macro, and the delete leaves none under its name; either leaves the
\* entries of every other name as they were.  Start, polling, play-macro
\* and list-macros never change storage.
C25_OnlyStopAndDeleteChangeStorage ==
    [][/\ storage' # storage
          => \/ \E t \in Callers : StopSave(t)
             \/ \E name \in RepoNames : RepoDelete(name)
       /\ \A t \in Callers :
             StopSave(t)
             => /\ EntriesOf(storage', arg[t])
                     = <<MacroToDict(MakeMacro(arg[t], result[t], clock))>>
                /\ \A other \in RepoNames \ {arg[t]} :
                      EntriesOf(storage', other) = EntriesOf(storage, other)
       /\ \A name \in RepoNames :
             RepoDelete(name)
             => /\ EntriesOf(storage', name) = <<>>
                /\ \A other \in RepoNames \ {name} :
                      EntriesOf(storage', other) = EntriesOf(storage, other)]_vars

\* a stop-recording has saved a macro with steps beside the macro of the
\* earlier run
C25_Witness ==
    /\ pc["t1"] = "stop_ok"
    /\ arg["t1"] = "other"
    /\ Len(storage) = 2
    /\ storage[1] = MacroToDict(EarlierMacro)
    /\ Len(storage[2].steps) > 0

\* when stop-recording last persisted a macro under the name: its place in
\* the order of the stop-recording calls, 0 for a macro of an earlier run
LastStop(name) ==
    IF \E i \in 1 .. Len(stopLog) : stopLog[i] = name
    THEN CHOOSE i \in 1 .. Len(stopLog) :
            stopLog[i] = name /\ \A j \in i + 1 .. Len(stopLog) : stopLog[j] # name
    ELSE 0

\* C28: list-macros returns the stored macros in the reverse order of the
\* stop-recording calls that last persisted them, so that the macro recorded
\* or re-recorded last stands at the front.
C28_ListIsReverseStopOrder ==
    [][RepoList
          => /\ \A i, j \in 1 .. Len(listed') :
                   i < j => LastStop(listed'[i].name) > LastStop(listed'[j].name)
             /\ (stopLog # <<>> /\ Stored(storage, stopLog[Len(stopLog)]) = 1)
                   => listed'[1].name = stopLog[Len(stopLog)]]_vars

\* the macro of the earlier run was re-recorded after another macro had been
\* recorded, and list-macros returned it at the front
C28_Witness ==
    /\ lastOp.op = "list"
    /\ stopLog = <<"other", "demo">>
    /\ Len(listed) = 2
    /\ listed[1].name = "demo"
    /\ listed[2].name = "other"

\* no task of the window is running and no callback is waiting
NothingPending ==
    /\ \A t \in Callers : task[t] \in {"none", "done"}
    /\ uiQueue = <<>>

\* C30: whenever no task of the window is running and no callback waits,
\* the window's recording flag, which the Start and Stop buttons follow,
\* equals the recorder's, so that the Stop button is enabled whenever a
\* recording is active.
C30_WindowFlagFollowsRecorder ==
    NothingPending => is_recording = recording

====
